---------------------------- MODULE Spec2Model ----------------------------
(***************************************************************************)
(* PC-ALE: the ALE link state machine (src/src/link/ale_state_machine.cpp) *)
(* and the FED-STD-1052 Variable-ARQ machine with its frame codec          *)
(* (src/src/fs1052/fs1052_arq.cpp, src/src/fs1052/frame_format.cpp).       *)
(*                                                                         *)
(* Every public method of a component is one action; an action is the      *)
(* whole call, nested process_event calls and callbacks included.  What    *)
(* the callbacks of the link machine receive during the last call is kept  *)
(* in observer variables (link_call, link_out), which the code never       *)
(* reads.  A call on an ARQ object is an operator from the object to the   *)
(* object after the call together with what its callbacks received.        *)
(***************************************************************************)
EXTENDS Integers, Sequences, FiniteSets, TLC

VARIABLES
    link,       \* the ALEStateMachine object
    link_call,  \* observer: the last public call made on the link machine
    link_out,   \* observer: what the callbacks received during that call
    arq,        \* a VariableARQ object: the one under test, the sender of a transfer
    peer,       \* a second VariableARQ object: the receiver of a transfer
    chan,       \* the frames in flight between the two, one queue per direction
    host,       \* the host program: its clock and the message it sends
    asm,        \* a MessageAssembler object
    asm_call,   \* observer: the last public call made on the assembler, what it
                \* returned and the number of words buffered before it
    codec,      \* a data frame, the buffer it is formatted into and what the
                \* parser makes of the buffer
    lqa,        \* the entries of an LQADatabase object
    golay,      \* the Golay codec: a word, its codeword as received and the last decode
    metrics     \* the metrics collector and what its host added

link_vars == <<link, link_call, link_out>>

arq_vars == <<arq, peer, chan, host>>

asm_vars == <<asm, asm_call>>

\* the objects that stand alone: no call on one of them touches another, the
\* link machine or an ARQ object
unit_vars == <<asm, asm_call, codec, lqa, golay, metrics>>

vars == <<link, link_call, link_out, arq, peer, chan, host, asm, asm_call, codec, lqa, golay, metrics>>

-----------------------------------------------------------------------------
(* Bounds of the link model *)

\* update() calls made on the link machine in one behaviour
MaxLinkUpdates == 1
\* channels the host adds to the scan list
MaxChannels == 1

\* clock advances between two update() calls, in ms: for each state the two
\* advances on either side of the limit update() tests in that state
LinkTimeSteps(state) ==
    CASE state \in {"CALLING", "HANDSHAKE"} -> {30000, 30001}
      [] state = "LINKED" -> {120000, 120001}
      [] state = "SOUNDING" -> {392, 393}
      [] OTHER -> {199, 200}

-----------------------------------------------------------------------------
(* ALE link state machine *)

ALEStates == {"IDLE", "SCANNING", "CALLING", "HANDSHAKE", "LINKED", "SOUNDING", "ERROR"}

ALEEvents == {"START_SCAN", "STOP_SCAN", "CALL_REQUEST", "CALL_DETECTED",
              "HANDSHAKE_COMPLETE", "LINK_TIMEOUT", "LINK_TERMINATED",
              "SOUNDING_REQUEST", "SOUNDING_COMPLETE", "ERROR_OCCURRED"}

WORD_DURATION_MS == 392
SCAN_DWELL_MS == 200
CALL_TIMEOUT_MS == 30000
LINK_TIMEOUT_MS == 120000

\* station addresses the host configures (characters as one-letter strings)
SelfAddresses == {<<"W", "1", "A", "W">>}

\* strncpy(dst, s, 3) into a zeroed char[4]: the first three characters
Strncpy3(s) == IF Len(s) <= 3 THEN s ELSE SubSeq(s, 1, 3)

Channel(freq) == [frequency_hz |-> freq, lqa_score |-> 0, last_scan_time_ms |-> 0]

\* ALEStateMachine::ALEStateMachine, with ScanConfig's defaults
LinkInitial ==
    [current_state |-> "IDLE",
     previous_state |-> "IDLE",
     scan_list |-> <<>>,
     dwell_time_ms |-> SCAN_DWELL_MS,
     channel_index |-> 0,
     self_address |-> <<>>,
     active_call_to |-> <<>>,
     active_call_from |-> <<>>,
     link_start_time_ms |-> 0,
     last_word_time_ms |-> 0,
     state_entry_time_ms |-> 0,
     last_scan_hop_time_ms |-> 0,
     current_time_ms |-> 0]

\* A call in progress: the machine, what the callbacks have received so far
\* (each callback's arguments, and in log the order of the transmit and the
\* state callbacks), and the value the call returns.
LinkCtx(m) ==
    [m |-> m, words |-> <<>>, chans |-> <<>>, states |-> <<>>, log |-> <<>>, ret |-> FALSE]

transmit_word(c, word) ==
    [c EXCEPT !.words = Append(@, word), !.log = Append(@, <<"word", word.type>>)]

set_channel(c, index) ==
    IF index >= Len(c.m.scan_list)
    THEN c
    ELSE [c EXCEPT !.m.channel_index = index,
                   !.m.scan_list[index + 1].last_scan_time_ms = c.m.current_time_ms,
                   !.chans = Append(@, c.m.scan_list[index + 1].frequency_hz)]

\* A copy of enter_state that addresses the TIS word with the whole self address.
enter_state_wholeAddress(c, new_state) ==
    CASE new_state = "SCANNING" ->
            LET c1 == [c EXCEPT !.m.channel_index = 0,
                                !.m.last_scan_hop_time_ms = c.m.current_time_ms]
            IN  IF Len(c1.m.scan_list) > 0 THEN set_channel(c1, 0) ELSE c1
      [] new_state = "CALLING" ->
            [c EXCEPT !.m.link_start_time_ms = c.m.current_time_ms]
      [] new_state = "HANDSHAKE" ->
            [c EXCEPT !.m.link_start_time_ms = c.m.current_time_ms]
      [] new_state = "LINKED" ->
            [c EXCEPT !.m.link_start_time_ms = c.m.current_time_ms,
                      !.m.last_word_time_ms = c.m.current_time_ms]
      [] new_state = "SOUNDING" ->
            IF c.m.self_address # <<>>
            THEN transmit_word(c, [type |-> "TIS",
                                   address |-> c.m.self_address,
                                   valid |-> TRUE,
                                   timestamp_ms |-> c.m.current_time_ms])
            ELSE c
      [] OTHER -> c

enter_state(c, new_state) ==
    CASE new_state = "SCANNING" ->
            LET c1 == [c EXCEPT !.m.channel_index = 0,
                                !.m.last_scan_hop_time_ms = c.m.current_time_ms]
            IN  IF Len(c1.m.scan_list) > 0 THEN set_channel(c1, 0) ELSE c1
      [] new_state = "CALLING" ->
            [c EXCEPT !.m.link_start_time_ms = c.m.current_time_ms]
      [] new_state = "HANDSHAKE" ->
            [c EXCEPT !.m.link_start_time_ms = c.m.current_time_ms]
      [] new_state = "LINKED" ->
            [c EXCEPT !.m.link_start_time_ms = c.m.current_time_ms,
                      !.m.last_word_time_ms = c.m.current_time_ms]
      [] new_state = "SOUNDING" ->
            IF c.m.self_address # <<>>
            THEN transmit_word(c, [type |-> "TIS",
                                   address |-> Strncpy3(c.m.self_address),
                                   valid |-> TRUE,
                                   timestamp_ms |-> c.m.current_time_ms])
            ELSE c
      [] OTHER -> c

exit_state(c, old_state) ==
    IF old_state = "LINKED"
    THEN [c EXCEPT !.m.active_call_to = <<>>, !.m.active_call_from = <<>>]
    ELSE c

transition_to(c, new_state) ==
    IF c.m.current_state = new_state
    THEN [c EXCEPT !.ret = FALSE]
    ELSE LET c1 == exit_state(c, c.m.current_state)
             c2 == [c1 EXCEPT !.m.previous_state = c1.m.current_state,
                              !.m.current_state = new_state,
                              !.m.state_entry_time_ms = c1.m.current_time_ms]
             c3 == enter_state(c2, new_state)
         IN  [c3 EXCEPT !.states = Append(@, <<c3.m.previous_state, c3.m.current_state>>),
                        !.log = Append(@, <<"state", c3.m.current_state>>),
                        !.ret = TRUE]

\* A copy of process_event in which CALLING + LINK_TIMEOUT goes to SCANNING, as
\* HANDSHAKE + LINK_TIMEOUT does.
process_event_callTimeoutToScanning(c, event) ==
    LET s == c.m.current_state
    IN  CASE s = "IDLE" /\ event = "START_SCAN" -> transition_to(c, "SCANNING")
          [] s = "IDLE" /\ event = "CALL_REQUEST" -> transition_to(c, "CALLING")
          [] s = "IDLE" /\ event = "SOUNDING_REQUEST" -> transition_to(c, "SOUNDING")
          [] s = "SCANNING" /\ event = "STOP_SCAN" -> transition_to(c, "IDLE")
          [] s = "SCANNING" /\ event = "CALL_DETECTED" -> transition_to(c, "HANDSHAKE")
          [] s = "SCANNING" /\ event = "CALL_REQUEST" -> transition_to(c, "CALLING")
          [] s = "CALLING" /\ event = "HANDSHAKE_COMPLETE" -> transition_to(c, "LINKED")
          [] s = "CALLING" /\ event = "LINK_TIMEOUT" -> transition_to(c, "SCANNING")
          [] s = "HANDSHAKE" /\ event = "HANDSHAKE_COMPLETE" -> transition_to(c, "LINKED")
          [] s = "HANDSHAKE" /\ event = "LINK_TIMEOUT" -> transition_to(c, "SCANNING")
          [] s = "LINKED" /\ event \in {"LINK_TERMINATED", "LINK_TIMEOUT"} ->
                transition_to(c, "IDLE")
          [] s = "SOUNDING" /\ event = "SOUNDING_COMPLETE" -> transition_to(c, "SCANNING")
          [] s = "ERROR" /\ event = "START_SCAN" -> transition_to(c, "SCANNING")
          [] s = "ERROR" /\ event # "START_SCAN" -> transition_to(c, "IDLE")
          [] OTHER ->
                IF event = "ERROR_OCCURRED"
                THEN transition_to(c, "ERROR")
                ELSE [c EXCEPT !.ret = FALSE]

\* ALEStateMachine::process_event: the switch on the current state returns from
\* inside each listed case; what falls out of the switch reaches the
\* ERROR_OCCURRED test.  The ERROR case returns in both of its branches.
process_event(c, event) ==
    LET s == c.m.current_state
    IN  CASE s = "IDLE" /\ event = "START_SCAN" -> transition_to(c, "SCANNING")
          [] s = "IDLE" /\ event = "CALL_REQUEST" -> transition_to(c, "CALLING")
          [] s = "IDLE" /\ event = "SOUNDING_REQUEST" -> transition_to(c, "SOUNDING")
          [] s = "SCANNING" /\ event = "STOP_SCAN" -> transition_to(c, "IDLE")
          [] s = "SCANNING" /\ event = "CALL_DETECTED" -> transition_to(c, "HANDSHAKE")
          [] s = "SCANNING" /\ event = "CALL_REQUEST" -> transition_to(c, "CALLING")
          [] s = "CALLING" /\ event = "HANDSHAKE_COMPLETE" -> transition_to(c, "LINKED")
          [] s = "CALLING" /\ event = "LINK_TIMEOUT" -> transition_to(c, "IDLE")
          [] s = "HANDSHAKE" /\ event = "HANDSHAKE_COMPLETE" -> transition_to(c, "LINKED")
          [] s = "HANDSHAKE" /\ event = "LINK_TIMEOUT" -> transition_to(c, "SCANNING")
          [] s = "LINKED" /\ event \in {"LINK_TERMINATED", "LINK_TIMEOUT"} ->
                transition_to(c, "IDLE")
          [] s = "SOUNDING" /\ event = "SOUNDING_COMPLETE" -> transition_to(c, "SCANNING")
          [] s = "ERROR" /\ event = "START_SCAN" -> transition_to(c, "SCANNING")
          [] s = "ERROR" /\ event # "START_SCAN" -> transition_to(c, "IDLE")
          [] OTHER ->
                IF event = "ERROR_OCCURRED"
                THEN transition_to(c, "ERROR")
                ELSE [c EXCEPT !.ret = FALSE]

check_link_timeout(m) ==
    CASE m.current_state \in {"CALLING", "HANDSHAKE"} ->
            m.current_time_ms - m.state_entry_time_ms > CALL_TIMEOUT_MS
      [] m.current_state = "LINKED" ->
            m.current_time_ms - m.state_entry_time_ms > LINK_TIMEOUT_MS
      [] OTHER -> FALSE

\* A copy of check_scan_dwell_timeout that waits until the dwell time is past.
check_scan_dwell_timeout_pastDwell(m) ==
    /\ m.current_state = "SCANNING"
    /\ m.current_time_ms - m.last_scan_hop_time_ms > m.dwell_time_ms

check_scan_dwell_timeout(m) ==
    /\ m.current_state = "SCANNING"
    /\ m.current_time_ms - m.last_scan_hop_time_ms >= m.dwell_time_ms

\* A copy of hop_to_next_channel that restarts the dwell time on an empty scan list.
hop_to_next_channel_emptyList(c) ==
    IF Len(c.m.scan_list) = 0
    THEN [c EXCEPT !.m.last_scan_hop_time_ms = c.m.current_time_ms]
    ELSE LET c1 == [c EXCEPT !.m.channel_index = (c.m.channel_index + 1) % Len(c.m.scan_list)]
             c2 == set_channel(c1, c1.m.channel_index)
         IN  [c2 EXCEPT !.m.last_scan_hop_time_ms = c2.m.current_time_ms]

hop_to_next_channel(c) ==
    IF Len(c.m.scan_list) = 0
    THEN c
    ELSE LET c1 == [c EXCEPT !.m.channel_index = (c.m.channel_index + 1) % Len(c.m.scan_list)]
             c2 == set_channel(c1, c1.m.channel_index)
         IN  [c2 EXCEPT !.m.last_scan_hop_time_ms = c2.m.current_time_ms]

handle_scanning(c) == IF check_scan_dwell_timeout(c.m) THEN hop_to_next_channel(c) ELSE c

handle_sounding(c) ==
    IF c.m.current_time_ms - c.m.state_entry_time_ms > WORD_DURATION_MS
    THEN process_event(c, "SOUNDING_COMPLETE")
    ELSE c

\* ALEStateMachine::update
link_update(c, now) ==
    LET c1 == [c EXCEPT !.m.current_time_ms = now]
        c2 == IF check_link_timeout(c1.m) THEN process_event(c1, "LINK_TIMEOUT") ELSE c1
    IN  CASE c2.m.current_state = "SCANNING" -> handle_scanning(c2)
          [] c2.m.current_state = "SOUNDING" -> handle_sounding(c2)
          [] OTHER -> c2

\* AddressBook::set_self_address: 3 to 15 valid characters, else refused
set_self_address(m, address) ==
    IF Len(address) < 3 \/ Len(address) > 15
    THEN m
    ELSE [m EXCEPT !.self_address = address]

\* AddressBook::is_self
is_self(m, address) == address = m.self_address

\* addr.erase(addr.find_last_not_of(' ') + 1): the trailing spaces go
RECURSIVE Trim(_)
Trim(s) ==
    IF s # <<>> /\ s[Len(s)] = " " THEN Trim(SubSeq(s, 1, Len(s) - 1)) ELSE s

\* ALEStateMachine::update_link_quality, for what it leaves in the scan list:
\* the score 100 - 10 * errors, kept within 0 .. 100
update_link_quality(m, fec_errors) ==
    IF m.channel_index < Len(m.scan_list)
    THEN [m EXCEPT !.scan_list[m.channel_index + 1].lqa_score =
                       IF 10 * fec_errors > 100 THEN 0 ELSE 100 - 10 * fec_errors]
    ELSE m

\* A copy of build_call_words that transmits the FROM word first.
build_call_words_fromFirst(c, to_addr, is_net) ==
    LET to_word == [type |-> IF is_net THEN "TWS" ELSE "TO",
                    address |-> Strncpy3(to_addr),
                    valid |-> TRUE,
                    timestamp_ms |-> c.m.current_time_ms]
        from_word == [type |-> "FROM",
                      address |-> Strncpy3(c.m.self_address),
                      valid |-> TRUE,
                      timestamp_ms |-> c.m.current_time_ms + WORD_DURATION_MS]
    IN  transmit_word(transmit_word(c, from_word), to_word)

\* ALEStateMachine::build_call_words
build_call_words(c, to_addr, is_net) ==
    LET to_word == [type |-> IF is_net THEN "TWS" ELSE "TO",
                    address |-> Strncpy3(to_addr),
                    valid |-> TRUE,
                    timestamp_ms |-> c.m.current_time_ms]
        from_word == [type |-> "FROM",
                      address |-> Strncpy3(c.m.self_address),
                      valid |-> TRUE,
                      timestamp_ms |-> c.m.current_time_ms + WORD_DURATION_MS]
    IN  transmit_word(transmit_word(c, to_word), from_word)

\* the body ALEStateMachine::initiate_call and initiate_net_call share
call_request(c, address, is_net) ==
    IF c.m.current_state \notin {"IDLE", "SCANNING"}
    THEN [c EXCEPT !.ret = FALSE]
    ELSE LET c1 == [c EXCEPT !.m.active_call_to = address,
                             !.m.active_call_from = c.m.self_address]
             c2 == process_event(c1, "CALL_REQUEST")
         IN  IF c2.ret THEN build_call_words(c2, address, is_net) ELSE c2

\* ALEStateMachine::initiate_call
initiate_call(c, to_address) == call_request(c, to_address, FALSE)

\* ALEStateMachine::initiate_net_call
initiate_net_call(c, net_address) == call_request(c, net_address, TRUE)

\* ALEStateMachine::process_received_word, which returns nothing.  The words
\* kept by the message assembler and the per-channel quality records are read
\* by none of the operations here and are left out.
process_received_word(c, word) ==
    IF ~word.valid
    THEN c
    ELSE LET c1 == [c EXCEPT !.m = update_link_quality(
                                       [c.m EXCEPT !.last_word_time_ms = c.m.current_time_ms],
                                       word.fec_errors)]
             addr == Trim(word.address)
         IN  IF /\ c1.m.current_state = "SCANNING"
                /\ word.type \in {"TO", "TWS"}
                /\ is_self(c1.m, addr)
             THEN [process_event([c1 EXCEPT !.m.active_call_to = addr], "CALL_DETECTED")
                      EXCEPT !.ret = FALSE]
             ELSE c1

-----------------------------------------------------------------------------
(* The host of the link machine *)

LinkReturn(c, op, event, from) ==
    /\ link' = c.m
    /\ link_call' = [op |-> op, event |-> event, from |-> from, ret |-> c.ret,
                     updates |-> link_call.updates + (IF op = "update" THEN 1 ELSE 0)]
    /\ link_out' = [words |-> c.words, chans |-> c.chans, states |-> c.states]
    /\ UNCHANGED <<arq_vars, unit_vars>>

LinkProcessEvent(event) ==
    LinkReturn(process_event(LinkCtx(link), event), "process_event", event,
               link.current_state)

LinkUpdate(dt) ==
    /\ link_call.updates < MaxLinkUpdates
    /\ LinkReturn(link_update(LinkCtx(link), link.current_time_ms + dt), "update", "",
                  link.current_state)

LinkAddScanChannel ==
    /\ Len(link.scan_list) < MaxChannels
    /\ LinkReturn(LinkCtx([link EXCEPT !.scan_list =
                              Append(@, Channel(7100000 + 1000 * Len(link.scan_list)))]),
                  "add_scan_channel", "", link.current_state)

LinkSetSelfAddress(address) ==
    /\ link.self_address # address
    /\ LinkReturn(LinkCtx(set_self_address(link, address)), "set_self_address", "",
                  link.current_state)

LinkInitiateCall(address) ==
    LinkReturn(initiate_call(LinkCtx(link), address), "initiate_call", "",
               link.current_state)

LinkInitiateNetCall(address) ==
    LinkReturn(initiate_net_call(LinkCtx(link), address), "initiate_net_call", "",
               link.current_state)

LinkProcessReceivedWord(word) ==
    LinkReturn(process_received_word(LinkCtx(link), word), "process_received_word", "",
               link.current_state)

LinkInit ==
    /\ link = LinkInitial
    /\ link_call = [op |-> "new", event |-> "", from |-> "IDLE", ret |-> FALSE, updates |-> 0]
    /\ link_out = [words |-> <<>>, chans |-> <<>>, states |-> <<>>]

LinkNext ==
    \/ \E event \in ALEEvents : LinkProcessEvent(event)
    \/ \E dt \in LinkTimeSteps(link.current_state) : LinkUpdate(dt)
    \/ LinkAddScanChannel
    \/ \E address \in SelfAddresses : LinkSetSelfAddress(address)


-----------------------------------------------------------------------------
(* Message assembler *)

WORD_TIMEOUT_MS == 5000

\* ALEMessage::ALEMessage.  A duration d below 0 stands for the unsigned
\* 32-bit value 2^32 + d.
EmptyMessage ==
    [call_type |-> "UNKNOWN",
     to_addresses |-> <<>>,
     from_address |-> <<>>,
     data_content |-> <<>>,
     words |-> <<>>,
     start_time_ms |-> 0,
     duration_ms |-> 0,
     complete |-> FALSE]

\* MessageAssembler::MessageAssembler
AsmInitial ==
    [current_words |-> <<>>,
     current_message |-> EmptyMessage,
     active |-> FALSE,
     last_word_time_ms |-> 0,
     word_timeout_ms |-> WORD_TIMEOUT_MS]

\* the types of the words in a sequence of words
TypesOf(words) == {words[i].type : i \in 1 .. Len(words)}

\* CallTypeDetector::detect
detect(words) ==
    LET is_sounding == "TIS" \in TypesOf(words)
        is_amd == {"TO", "FROM", "DATA"} \subseteq TypesOf(words)
        is_individual_call == {"TO", "FROM"} \subseteq TypesOf(words)
        is_net_call == {"TWS", "FROM"} \subseteq TypesOf(words)
    IN  IF words = <<>> THEN "UNKNOWN"
        ELSE IF is_sounding THEN "SOUNDING"
        ELSE IF is_amd THEN "AMD"
        ELSE IF is_individual_call THEN "INDIVIDUAL"
        ELSE IF is_net_call THEN "NET"
        ELSE "UNKNOWN"

\* MessageAssembler::reset
asm_reset(a) ==
    [a EXCEPT !.current_words = <<>>,
              !.current_message = EmptyMessage,
              !.active = FALSE,
              !.last_word_time_ms = 0]

\* A copy of is_sequence_complete that does not count a TWS word as a TO word.
is_sequence_complete_toOnly(words) ==
    LET has_to == "TO" \in TypesOf(words)
        has_from == "FROM" \in TypesOf(words)
        has_tis == "TIS" \in TypesOf(words)
    IN  words # <<>> /\ (has_tis \/ (has_to /\ has_from))

\* MessageAssembler::is_sequence_complete
is_sequence_complete(words) ==
    LET has_to == TypesOf(words) \cap {"TO", "TWS"} # {}
        has_from == "FROM" \in TypesOf(words)
        has_tis == "TIS" \in TypesOf(words)
    IN  words # <<>> /\ (has_tis \/ (has_to /\ has_from))

\* MessageAssembler::extract_addresses: std::string addr(word.address, 3),
\* its trailing spaces erased, is appended or stored unless it is empty
RECURSIVE extract_addresses(_, _)
extract_addresses(words, msg) ==
    IF words = <<>> THEN msg
    ELSE LET word == Head(words)
             addr == Trim(word.address)
         IN  extract_addresses(Tail(words),
                 IF word.type \in {"TO", "TWS"}
                 THEN IF addr # <<>> THEN [msg EXCEPT !.to_addresses = Append(@, addr)]
                      ELSE msg
                 ELSE IF word.type \in {"FROM", "TIS"}
                      THEN IF addr # <<>> THEN [msg EXCEPT !.from_address = addr] ELSE msg
                      ELSE msg)

\* MessageAssembler::extract_data
RECURSIVE extract_data(_, _)
extract_data(words, msg) ==
    IF words = <<>> THEN msg
    ELSE LET word == Head(words)
             data == Trim(word.address)
         IN  extract_data(Tail(words),
                 IF word.type = "DATA" /\ data # <<>>
                 THEN [msg EXCEPT !.data_content = Append(@, data)]
                 ELSE msg)

\* A copy of check_timeout that fires when the timeout is reached.
check_timeout_atTimeout(a, current_time_ms) ==
    IF current_time_ms < a.last_word_time_ms
    THEN FALSE
    ELSE current_time_ms - a.last_word_time_ms >= a.word_timeout_ms

\* MessageAssembler::check_timeout
check_timeout(a, current_time_ms) ==
    IF current_time_ms < a.last_word_time_ms
    THEN FALSE
    ELSE current_time_ms - a.last_word_time_ms > a.word_timeout_ms

\* MessageAssembler::add_word: the assembler after the call and what it returns
add_word(a, word) ==
    IF ~word.valid
    THEN [a |-> a, ret |-> FALSE]
    ELSE LET current_time == word.timestamp_ms
             a1 == IF a.active /\ check_timeout(a, current_time) THEN asm_reset(a) ELSE a
             a2 == IF ~a1.active
                   THEN [a1 EXCEPT !.current_message.start_time_ms = current_time,
                                   !.active = TRUE]
                   ELSE a1
             a3 == [a2 EXCEPT !.current_words = Append(@, word),
                              !.last_word_time_ms = current_time]
         IN  IF is_sequence_complete(a3.current_words)
             THEN LET m1 == [a3.current_message EXCEPT
                                 !.words = a3.current_words,
                                 !.duration_ms = current_time - a3.current_message.start_time_ms,
                                 !.call_type = detect(a3.current_words),
                                 !.complete = TRUE]
                      m2 == extract_addresses(a3.current_words, m1)
                      m3 == extract_data(a3.current_words, m2)
                  IN  [a |-> [a3 EXCEPT !.current_message = m3], ret |-> TRUE]
             ELSE [a |-> a3, ret |-> FALSE]

\* MessageAssembler::get_message: the assembler after the call, what it returns
\* and the caller's message object, which was empty before the call
get_message(a) ==
    IF ~a.current_message.complete
    THEN [a |-> a, ret |-> FALSE, output |-> EmptyMessage]
    ELSE [a |-> asm_reset(a), ret |-> TRUE, output |-> a.current_message]

-----------------------------------------------------------------------------
(* The host of an assembler *)

\* words buffered at most
MaxAsmWords == 2

\* the words a receiver hands in, as src/tests/test_protocol.cpp builds them:
\* three characters each, blank ones among them; the timestamps lie the word
\* timeout and one ms more apart
AsmWordKinds ==
    {<<"TO", <<"K", "6", "K">>>>, <<"TO", <<" ", " ", " ">>>>, <<"TWS", <<"N", "E", "T">>>>,
     <<"FROM", <<"W", "1", "A">>>>, <<"TIS", <<"W", "1", " ">>>>,
     <<"DATA", <<"H", "I", " ">>>>, <<"DATA", <<" ", " ", " ">>>>, <<"CMD", <<"A", "B", "C">>>>}

AsmTimes == {1000, 1000 + WORD_TIMEOUT_MS, 1001 + WORD_TIMEOUT_MS}

AsmWords ==
    {[type |-> k[1], address |-> k[2], valid |-> TRUE, timestamp_ms |-> t] :
        k \in AsmWordKinds, t \in AsmTimes}
    \cup {[type |-> "TO", address |-> <<"K", "6", "K">>, valid |-> FALSE, timestamp_ms |-> 1000]}

AsmReturn(r, op, output) ==
    /\ asm' = r.a
    /\ asm_call' = [op |-> op, ret |-> r.ret, output |-> output,
                    buffered |-> Len(asm.current_words)]
    /\ UNCHANGED <<link_vars, arq_vars, codec, lqa, golay, metrics>>

AsmAddWord(word) ==
    LET r == add_word(asm, word)
    IN  /\ Len(r.a.current_words) <= MaxAsmWords
        /\ AsmReturn(r, "add_word", EmptyMessage)

AsmGetMessage ==
    LET r == get_message(asm)
    IN  AsmReturn(r, "get_message", r.output)

AsmReset == AsmReturn([a |-> asm_reset(asm), ret |-> FALSE], "reset", EmptyMessage)

AsmInit ==
    /\ asm = AsmInitial
    /\ asm_call = [op |-> "new", ret |-> FALSE, output |-> EmptyMessage, buffered |-> 0]

AsmNext ==
    \/ \E word \in AsmWords : AsmAddWord(word)
    \/ AsmGetMessage
    \/ AsmReset

-----------------------------------------------------------------------------
(* LQA database: src/src/lqa_database.cpp.  entries_, a std::map, is kept as *)
(* the sequence of its entries in the order of their keys.  A station name  *)
(* is the sequence of its character codes.  The float members snr_db and    *)
(* ber are kept in tenths of a dB and in 1/10000; left out are the members  *)
(* update_entry leaves at their defaults and the score, which depends on    *)
(* the wall clock.                                                          *)

\* std::string::operator<
RECURSIVE StringLess(_, _)
StringLess(a, b) ==
    IF b = <<>> THEN FALSE
    ELSE IF a = <<>> THEN TRUE
    ELSE IF Head(a) # Head(b) THEN Head(a) < Head(b)
    ELSE StringLess(Tail(a), Tail(b))

\* A copy of EntryKeyLess that orders a key before itself.
EntryKeyLess_orEqual(a, b) ==
    IF a.frequency_hz # b.frequency_hz
    THEN a.frequency_hz < b.frequency_hz
    ELSE ~StringLess(b.remote_station, a.remote_station)

\* LQADatabase::EntryKey::operator<
EntryKeyLess(a, b) ==
    IF a.frequency_hz # b.frequency_hz
    THEN a.frequency_hz < b.frequency_hz
    ELSE StringLess(a.remote_station, b.remote_station)

\* std::map::lower_bound: the position of the first entry whose key is not
\* less than key, Len(entries) + 1 when there is none
LowerBound(entries, key) ==
    LET before == {i \in 1 .. Len(entries) : EntryKeyLess(entries[i], key)}
    IN  Cardinality(before) + 1

\* std::map::find: the position of the entry with an equivalent key, or 0
MapFind(entries, key) ==
    LET i == LowerBound(entries, key)
    IN  IF i <= Len(entries) /\ ~EntryKeyLess(key, entries[i]) THEN i ELSE 0

\* LQADatabase::time_weighted_average with the default time_decay_factor 0.9;
\* the quotient is rounded down
time_weighted_average(old_value, new_value, old_samples) ==
    (old_value * 9 * old_samples + new_value * 10) \div (old_samples * 9 + 10)

\* LQADatabase::update_entry; clock is what get_current_time_ms returns
update_entry(entries, frequency_hz, remote_station, snr_db, ber, fec_errors, total_words, timestamp_ms, clock) ==
    LET key == [frequency_hz |-> frequency_hz, remote_station |-> remote_station]
        now == IF timestamp_ms = 0 THEN clock ELSE timestamp_ms
        it == MapFind(entries, key)
    IN  IF it # 0
        THEN LET entry == entries[it]
                 old_samples == entry.sample_count
             IN  [entries EXCEPT ![it] =
                     [entry EXCEPT
                         !.snr_db = time_weighted_average(entry.snr_db, snr_db, old_samples),
                         !.ber = time_weighted_average(entry.ber, ber, old_samples),
                         !.fec_errors = @ + fec_errors,
                         !.total_words = @ + total_words,
                         !.sample_count = @ + 1,
                         !.last_contact_ms = IF remote_station # <<>> THEN now ELSE @,
                         !.last_sounding_ms = IF remote_station # <<>> THEN @ ELSE now]]
        ELSE LET entry == [frequency_hz |-> frequency_hz,
                           remote_station |-> remote_station,
                           snr_db |-> snr_db,
                           ber |-> ber,
                           fec_errors |-> fec_errors,
                           total_words |-> total_words,
                           sample_count |-> 1,
                           last_contact_ms |-> IF remote_station # <<>> THEN now ELSE 0,
                           last_sounding_ms |-> IF remote_station # <<>> THEN 0 ELSE now]
                 i == LowerBound(entries, key)
             IN  SubSeq(entries, 1, i - 1) \o <<entry>> \o SubSeq(entries, i, Len(entries))

-----------------------------------------------------------------------------
(* The host of an LQA database: src/tests/test_lqa_database.cpp *)

\* samples that go into a database
MaxSamples == 3

\* the samples in a database
RECURSIVE SamplesIn(_)
SamplesIn(entries) ==
    IF entries = <<>> THEN 0 ELSE Head(entries).sample_count + SamplesIn(Tail(entries))

LqaFrequencies == {7073000, 14100000}

\* "REMOTE", and "" for a sounding
LqaStations == {<<82, 69, 77, 79, 84, 69>>, <<>>}

\* the measurements of the tests: SNR 20.0 dB, BER 0.01, 2 errors in 100 words,
\* and SNR 25.0 dB, BER 0.005, 1 error in 10 words
LqaMetrics ==
    {[snr_db |-> 200, ber |-> 100, fec_errors |-> 2, total_words |-> 100],
     [snr_db |-> 250, ber |-> 50, fec_errors |-> 1, total_words |-> 10]}

\* the timestamp a caller passes, 0 for the time of the call
LqaTimestamps == {0, 1000}

LqaClock == {5000}

LqaUpdateEntry(frequency_hz, remote_station, m, timestamp_ms) ==
    /\ SamplesIn(lqa) < MaxSamples
    /\ \E clock \in LqaClock :
           lqa' = update_entry(lqa, frequency_hz, remote_station, m.snr_db, m.ber,
                               m.fec_errors, m.total_words, timestamp_ms, clock)
    /\ UNCHANGED <<link_vars, arq_vars, asm_vars, codec, golay, metrics>>

\* LQADatabase::clear
LqaClear ==
    /\ lqa' = <<>>
    /\ UNCHANGED <<link_vars, arq_vars, asm_vars, codec, golay, metrics>>

LqaInit == lqa = <<>>

LqaNext ==
    \/ \E frequency_hz \in LqaFrequencies, remote_station \in LqaStations,
          m \in LqaMetrics, timestamp_ms \in LqaTimestamps :
           LqaUpdateEntry(frequency_hz, remote_station, m, timestamp_ms)
    \/ LqaClear

-----------------------------------------------------------------------------
(* Bytes and byte vectors *)

\* Byte k of an unsigned value, counted from the least significant one:
\* (x >> 8k) & 0xFF
ByteOf(x, k) == (x \div (256 ^ k)) % 256

\* Bit k of a byte: (b >> k) & 1
BitOf(b, k) == (b \div (2 ^ k)) % 2

\* A byte vector is kept as a sequence of runs.  A run of n bytes either copies
\* the bytes src .. src+n-1 of the message the host sends (src >= 0) or is n
\* zero bytes (src = -1, what std::vector::resize appends).  The bytes of the
\* message are kept symbolic: two vectors are equal when their runs, merged, are.
Run(n, src) == [n |-> n, src |-> src]

RECURSIVE VecLen(_)
VecLen(v) == IF v = <<>> THEN 0 ELSE Head(v).n + VecLen(Tail(v))

\* the first k bytes of v
RECURSIVE VecTake(_, _)
VecTake(v, k) ==
    IF k <= 0 \/ v = <<>> THEN <<>>
    ELSE IF Head(v).n <= k
         THEN <<Head(v)>> \o VecTake(Tail(v), k - Head(v).n)
         ELSE <<Run(k, Head(v).src)>>

\* v without its first k bytes
RECURSIVE VecDrop(_, _)
VecDrop(v, k) ==
    IF v = <<>> THEN <<>>
    ELSE IF k <= 0 THEN v
    ELSE IF Head(v).n <= k
         THEN VecDrop(Tail(v), k - Head(v).n)
         ELSE <<Run(Head(v).n - k,
                    IF Head(v).src < 0 THEN -1 ELSE Head(v).src + k)>> \o Tail(v)

\* adjacent runs that continue each other become one run; empty runs vanish
RECURSIVE VecMerge(_)
VecMerge(v) ==
    IF v = <<>> THEN <<>>
    ELSE IF Head(v).n = 0 THEN VecMerge(Tail(v))
    ELSE LET rest == VecMerge(Tail(v))
         IN  IF rest = <<>> THEN <<Head(v)>>
             ELSE IF \/ (Head(v).src < 0 /\ Head(rest).src < 0)
                     \/ (Head(v).src >= 0 /\ Head(rest).src = Head(v).src + Head(v).n)
                  THEN <<Run(Head(v).n + Head(rest).n, Head(v).src)>> \o Tail(rest)
                  ELSE <<Head(v)>> \o rest

\* std::vector::resize to a larger size: zero bytes are appended
VecResize(v, size) ==
    IF size > VecLen(v) THEN VecMerge(v \o <<Run(size - VecLen(v), -1)>>) ELSE v

\* memcpy(&v[offset], data, n) into a vector that is long enough
VecWrite(v, offset, data) ==
    VecMerge(VecTake(v, offset) \o data \o VecDrop(v, offset + VecLen(data)))

\* the message of the given length, as the host holds it
Message(length) == VecMerge(<<Run(length, 0)>>)

-----------------------------------------------------------------------------
(* FED-STD-1052 frames: src/include/fs1052_protocol.h, frame_format.cpp *)

PROTOCOL_VERSION == 0
MAX_DATA_BLOCK_LENGTH == 1023
ACK_MAP_SIZE == 32

\* enum values
VARIABLE_ARQ == 0
SHORT_2_BYTE == 0
LONG_18_BYTE == 1
NO_FRAME == 0
T1_CONTROL == 1
T2_CONTROL == 2
T3_CONTROL == 3
T4_CONTROL == 4
DATA == 5
NULL_ACK == 0
DATA_ACK == 1
BPS_2400 == 5

Zeros(n) == [i \in 1 .. n |-> 0]

\* ControlFrame::ControlFrame
ControlFrame ==
    [protocol_version |-> PROTOCOL_VERSION,
     arq_mode |-> VARIABLE_ARQ,
     neg_mode |-> 0,
     address_mode |-> SHORT_2_BYTE,
     frame_type |-> NO_FRAME,
     src_address_length |-> 0,
     src_address |-> Zeros(18),
     des_address_length |-> 0,
     des_address |-> Zeros(18),
     link_state |-> 0,
     link_timeout |-> 0,
     ack_nak_type |-> NULL_ACK,
     bit_map |-> Zeros(ACK_MAP_SIZE),
     flow_control |-> FALSE,
     herald_present |-> FALSE,
     message_present |-> FALSE,
     extension_function_present |-> FALSE]

\* DataFrame::DataFrame
DataFrame ==
    [data_rate_format |-> 0,
     data_rate |-> BPS_2400,
     interleaver_length |-> 1,
     sequence_number |-> 0,
     msg_byte_offset |-> 0,
     data_length |-> 0,
     data |-> <<>>]

\* A frame on the wire: the bytes in front of the payload, the payload as a byte
\* vector, and whether the four CRC bytes that end the frame are the CRC-32 of
\* what precedes them.  append_crc32 makes them so; nothing in this model
\* changes a byte of a frame after that.
Wire(head, data) == [head |-> head, data |-> data, crc_ok |-> TRUE]

WireLen(w) == Len(w.head) + VecLen(w.data) + 4

\* the two abbreviated address bytes: the last and the last but one character
ShortAddress(address, length) ==
    <<IF length >= 1 THEN address[length] ELSE 0,
      IF length >= 2 THEN address[length - 1] ELSE 0>>

\* the byte with bit 7 of b set: b |= 0x80
Or80(b) == IF b >= 128 THEN b ELSE b + 128

\* FrameFormatter::format_control_frame; the fields of the herald, the message
\* and the extension part are all zero in the frames built here.
format_control_frame(frame) ==
    LET b0 == 1 + 2 + (frame.protocol_version % 4) * 4 + (frame.arq_mode % 4) * 16
                + (frame.neg_mode % 2) * 64 + (frame.address_mode % 2) * 128
        addresses ==
            IF frame.address_mode = SHORT_2_BYTE
            THEN ShortAddress(frame.src_address, frame.src_address_length)
                 \o ShortAddress(frame.des_address, frame.des_address_length)
            ELSE frame.src_address \o frame.des_address
        management == <<frame.link_state, ByteOf(frame.link_timeout, 1),
                        ByteOf(frame.link_timeout, 0)>>
        transfer == <<frame.ack_nak_type % 4>>
        bitmap ==
            IF /\ frame.frame_type \in {T2_CONTROL, T3_CONTROL, T4_CONTROL}
               /\ frame.ack_nak_type = DATA_ACK
               /\ frame.address_mode = SHORT_2_BYTE
            THEN [i \in 1 .. ACK_MAP_SIZE |->
                    IF i = ACK_MAP_SIZE /\ frame.flow_control
                    THEN Or80(frame.bit_map[i])
                    ELSE frame.bit_map[i]]
            ELSE <<>>
        herald == IF frame.herald_present THEN Zeros(5) ELSE <<>>
        message == IF frame.message_present THEN Zeros(17) ELSE <<>>
        extension == IF frame.extension_function_present THEN Zeros(8) ELSE <<>>
    IN  Wire(<<b0>> \o addresses \o management \o transfer \o bitmap
             \o herald \o message \o extension, <<>>)

\* FrameFormatter::format_data_frame into a buffer of buffer_size bytes; <<>> is
\* the return value -1.
format_data_frame(frame, buffer_size) ==
    IF buffer_size < frame.data_length + 20
    THEN <<>>
    ELSE <<Wire(<<1 + frame.data_rate_format * 128 + (frame.data_rate % 8) * 16,
                  frame.interleaver_length,
                  frame.sequence_number,
                  ByteOf(frame.msg_byte_offset, 3),
                  ByteOf(frame.msg_byte_offset, 2),
                  ByteOf(frame.msg_byte_offset, 1),
                  ByteOf(frame.msg_byte_offset, 0),
                  ByteOf(frame.data_length, 1),
                  ByteOf(frame.data_length, 0)>>,
                VecTake(frame.data, frame.data_length))>>

\* FrameParser::detect_frame_type
detect_frame_type(w) == IF BitOf(w.head[1], 1) = 1 THEN T1_CONTROL ELSE DATA

\* FrameParser::validate_crc32
validate_crc32(w) == WireLen(w) >= 4 /\ w.crc_ok

\* FrameParser::parse_control_frame: [ok |-> the return value, frame |-> the
\* frame filled in].  The frame passed in is a fresh ControlFrame.
parse_control_frame(w) ==
    LET length == WireLen(w)
        b == w.head
        address_mode == BitOf(b[1], 7)
        index == IF address_mode = SHORT_2_BYTE THEN 5 ELSE 37
        f1 == [ControlFrame EXCEPT
                 !.protocol_version = (b[1] \div 4) % 4,
                 !.arq_mode = (b[1] \div 16) % 4,
                 !.neg_mode = BitOf(b[1], 6),
                 !.address_mode = address_mode,
                 !.src_address_length = IF address_mode = SHORT_2_BYTE THEN 2 ELSE 18,
                 !.src_address = IF address_mode = SHORT_2_BYTE
                                 THEN <<b[3], b[2]>> \o Zeros(16)
                                 ELSE SubSeq(b, 2, 19),
                 !.des_address_length = IF address_mode = SHORT_2_BYTE THEN 2 ELSE 18,
                 !.des_address = IF address_mode = SHORT_2_BYTE
                                 THEN <<b[5], b[4]>> \o Zeros(16)
                                 ELSE SubSeq(b, 20, 37)]
    IN  IF length < 10 \/ ~validate_crc32(w) THEN [ok |-> FALSE, frame |-> ControlFrame]
        ELSE IF index + 3 > length - 4 THEN [ok |-> FALSE, frame |-> f1]
        ELSE IF index + 3 >= length - 4 THEN [ok |-> FALSE, frame |-> f1]
        ELSE LET f2 == [f1 EXCEPT
                          !.link_state = b[index + 1],
                          !.link_timeout = b[index + 2] * 256 + b[index + 3],
                          !.ack_nak_type = b[index + 4] % 4]
                 at == index + 4
             IN  IF at + ACK_MAP_SIZE <= length - 4 /\ address_mode = SHORT_2_BYTE
                 THEN [ok |-> TRUE,
                       frame |-> [f2 EXCEPT
                                    !.bit_map = SubSeq(b, at + 1, at + ACK_MAP_SIZE),
                                    !.flow_control = (b[at + ACK_MAP_SIZE] >= 128)]]
                 ELSE [ok |-> TRUE, frame |-> f2]

\* FrameParser::parse_data_frame: [ok |-> the return value, frame |-> the frame
\* filled in].  Every frame here carries at least nine bytes before its payload.
parse_data_frame(w) ==
    LET length == WireLen(w)
        b == w.head
        f == [DataFrame EXCEPT
                !.data_rate_format = BitOf(b[1], 7),
                !.data_rate = (b[1] \div 16) % 8,
                !.interleaver_length = b[2],
                !.sequence_number = b[3],
                !.msg_byte_offset = ((b[4] * 256 + b[5]) * 256 + b[6]) * 256 + b[7],
                !.data_length = b[8] * 256 + b[9]]
    IN  IF length < 13 \/ ~validate_crc32(w) THEN [ok |-> FALSE, frame |-> DataFrame]
        ELSE IF f.data_length > MAX_DATA_BLOCK_LENGTH \/ 9 + f.data_length + 4 # length
             THEN [ok |-> FALSE, frame |-> f]
             ELSE [ok |-> TRUE,
                   frame |-> [f EXCEPT !.data = VecTake(w.data, f.data_length)]]


-----------------------------------------------------------------------------
(* The bytes of a frame and its CRC-32: src/src/fs1052/frame_format.cpp.  A *)
(* 32-bit value is kept as its two halves of 16 bits, hi and lo.            *)

CRC32_POLYNOMIAL == 79764919

\* byte i of a test message: large_data[i] = i & 0xFF
MessageOctet(i) == i % 256

\* the bytes of a byte vector
RECURSIVE VecOctets(_)
VecOctets(v) ==
    IF v = <<>> THEN <<>>
    ELSE [k \in 1 .. Head(v).n |->
             IF Head(v).src < 0 THEN 0 ELSE MessageOctet(Head(v).src + k - 1)]
         \o VecOctets(Tail(v))

\* the byte vector that holds given bytes
RECURSIVE OctetsVec(_)
OctetsVec(bytes) ==
    IF bytes = <<>> THEN <<>> ELSE <<Run(1, Head(bytes))>> \o OctetsVec(Tail(bytes))

\* a ^ b
RECURSIVE Xor(_, _)
Xor(a, b) ==
    IF a = 0 THEN b
    ELSE IF b = 0 THEN a
    ELSE ((a + b) % 2) + 2 * Xor(a \div 2, b \div 2)

\* A copy of crc32_bits that shifts the value without the polynomial.
RECURSIVE crc32_bits_noPolynomial(_, _)
crc32_bits_noPolynomial(crc, i) ==
    IF i = 0 THEN crc
    ELSE IF crc.hi >= 32768
         THEN crc32_bits_noPolynomial(
                  [hi |-> ((crc.hi * 2) % 65536) + (crc.lo \div 32768),
                   lo |-> (crc.lo * 2) % 65536], i - 1)
         ELSE crc32_bits_noPolynomial(
                  [hi |-> ((crc.hi * 2) % 65536) + (crc.lo \div 32768),
                   lo |-> (crc.lo * 2) % 65536], i - 1)

\* the loop of crc32_byte, i iterations of it: crc << 1, and ^ CRC32_POLYNOMIAL
\* when crc & 0x80000000
RECURSIVE crc32_bits(_, _)
crc32_bits(crc, i) ==
    IF i = 0 THEN crc
    ELSE IF crc.hi >= 32768
         THEN crc32_bits(
                  [hi |-> Xor(((crc.hi * 2) % 65536) + (crc.lo \div 32768),
                              CRC32_POLYNOMIAL \div 65536),
                   lo |-> Xor((crc.lo * 2) % 65536, CRC32_POLYNOMIAL % 65536)], i - 1)
         ELSE crc32_bits(
                  [hi |-> ((crc.hi * 2) % 65536) + (crc.lo \div 32768),
                   lo |-> (crc.lo * 2) % 65536], i - 1)

\* crc32_byte
crc32_byte(data, crc) == crc32_bits([crc EXCEPT !.hi = Xor(@, data * 256)], 8)

\* the loop of FrameFormatter::calculate_crc32: the value of crc after the
\* bytes, 0xFFFFFFFF before the first one
RECURSIVE crc32_loop(_)
crc32_loop(bytes) ==
    IF bytes = <<>> THEN [hi |-> 65535, lo |-> 65535]
    ELSE crc32_byte(bytes[Len(bytes)], crc32_loop(SubSeq(bytes, 1, Len(bytes) - 1)))

\* FrameFormatter::calculate_crc32
calculate_crc32(bytes) ==
    LET crc == crc32_loop(bytes)
    IN  [hi |-> 65535 - crc.hi, lo |-> 65535 - crc.lo]

\* the four bytes of a 32-bit value, the most significant one first
BigEndian(crc) == <<crc.hi \div 256, crc.hi % 256, crc.lo \div 256, crc.lo % 256>>

\* The buffer a formatter has filled: the bytes in front of the payload, the
\* payload, and the CRC-32 of both as append_crc32 stores it.
Octets(w) ==
    LET content == w.head \o VecOctets(w.data)
    IN  content \o BigEndian(calculate_crc32(content))

\* The frame a parser finds in a buffer of at least 13 bytes; the CRC is good
\* when FrameParser::validate_crc32 finds the last four bytes to be the CRC-32
\* of the bytes before them.
BufferFrame(bytes) ==
    LET length == Len(bytes)
    IN  [head |-> SubSeq(bytes, 1, 9),
         data |-> VecMerge(OctetsVec(SubSeq(bytes, 10, length - 4))),
         crc_ok |-> BigEndian(calculate_crc32(SubSeq(bytes, 1, length - 4)))
                        = SubSeq(bytes, length - 3, length)]

\* bytes with bit k flipped, the bits counted from bit 0 of the first byte
FlipBit(bytes, k) ==
    LET b == bytes[k \div 8 + 1]
    IN  [bytes EXCEPT ![k \div 8 + 1] =
            IF BitOf(b, k % 8) = 1 THEN b - 2 ^ (k % 8) ELSE b + 2 ^ (k % 8)]

-----------------------------------------------------------------------------
(* The host of the frame formatter and parser: src/tests/test_fs1052_frames.cpp *)

\* payload bytes of the frames whose buffers are checked byte by byte
MaxOctets == 2

\* uint8_t buffer[1200]
FRAME_BUFFER_SIZE == 1200

\* The frames a test formats: blocks of a message at its start and past its
\* first block, short ones and the two on either side of the longest block.
\* DataFrame::data has MAX_DATA_BLOCK_LENGTH bytes; what a longer memcpy reads
\* behind it is one of OverRead.
CodecFrames ==
    {[DataFrame EXCEPT !.sequence_number = sequence,
                       !.msg_byte_offset = offset,
                       !.data_length = length,
                       !.data = IF length = 0 THEN <<>>
                                ELSE IF length > MAX_DATA_BLOCK_LENGTH
                                     THEN <<Run(MAX_DATA_BLOCK_LENGTH, offset)>>
                                     ELSE <<Run(length, offset)>>] :
        sequence \in {1, 42, 255},
        offset \in {0, MAX_DATA_BLOCK_LENGTH},
        length \in (0 .. MaxOctets) \cup {MAX_DATA_BLOCK_LENGTH, MAX_DATA_BLOCK_LENGTH + 1}}

OverRead == {Run(1, -1), Run(1, 255)}

CodecNew(frame) ==
    [frame |-> frame, op |-> "new", formatted |-> <<>>, flipped |-> -1,
     ok |-> FALSE, parsed |-> DataFrame]

\* format_data_frame(frame, buffer, sizeof(buffer))
CodecFormat ==
    /\ codec.op = "new"
    /\ \E after \in OverRead :
           codec' = [codec EXCEPT
                        !.op = "format",
                        !.formatted =
                            format_data_frame([codec.frame EXCEPT
                                                  !.data = VecMerge(@ \o <<after>>)],
                                              FRAME_BUFFER_SIZE)]
    /\ UNCHANGED <<link_vars, arq_vars, asm_vars, lqa, golay, metrics>>

\* parse_data_frame(buffer, length, parsed) on the buffer as it was filled.  The
\* buffer of a short frame is taken byte by byte, CRC included.
CodecParse ==
    /\ codec.op = "format"
    /\ codec.formatted # <<>>
    /\ LET w == codec.formatted[1]
           r == parse_data_frame(IF VecLen(w.data) <= MaxOctets
                                 THEN BufferFrame(Octets(w)) ELSE w)
       IN  codec' = [codec EXCEPT !.op = "parse", !.ok = r.ok, !.parsed = r.frame]
    /\ UNCHANGED <<link_vars, arq_vars, asm_vars, lqa, golay, metrics>>

\* parse_data_frame on the buffer of a short frame with bit k flipped
CodecFlipParse(k) ==
    /\ codec.op = "format"
    /\ codec.formatted # <<>>
    /\ VecLen(codec.formatted[1].data) <= MaxOctets
    /\ k < 8 * WireLen(codec.formatted[1])
    /\ LET r == parse_data_frame(BufferFrame(FlipBit(Octets(codec.formatted[1]), k)))
       IN  codec' = [codec EXCEPT !.op = "parse", !.flipped = k,
                                  !.ok = r.ok, !.parsed = r.frame]
    /\ UNCHANGED <<link_vars, arq_vars, asm_vars, lqa, golay, metrics>>

CodecInit == codec = CodecNew(DataFrame)

CodecStart == codec \in {CodecNew(frame) : frame \in CodecFrames}

CodecNext ==
    \/ CodecFormat
    \/ CodecParse
    \/ \E k \in 0 .. 8 * (13 + MaxOctets) - 1 : CodecFlipParse(k)

-----------------------------------------------------------------------------
(* Extended Golay (24,12): src/src/fec/golay.cpp.  A codeword is an integer *)
(* below 2^24, an error pattern the ascending sequence of its bit numbers.  *)

\* the initializers of GOLAY_ENCODE_TABLE, in the order of the source
GOLAY_ENCODE_TABLE_INIT ==
    <<   0, 1479, 2957, 3658,  734, 1817, 2387, 3220,
      1468,  123, 3633, 3062, 1890,  677, 3311, 2344,
      2936, 3775,  245, 1330, 2470, 3169,  555, 2028,
      3780, 2819, 1353,  142, 3098, 2525, 1943,  592,
       823, 1776, 2234, 3453,  489, 1070, 2660, 4003,
      1675,  844, 3334, 2241, 1109,  402, 4056, 2591,
      2127, 3464,  962, 1541, 2705, 3926,  284, 1243,
      3571, 2100, 1662,  953, 3885, 2794, 1184,  359,
      1645,  938, 3552, 2087, 1203,  372, 3902, 2809,
       977, 1558, 2140, 3483,  271, 1224, 2690, 3909,
      3349, 2258, 1688,  863, 4043, 2572, 1094,  385,
      2217, 3438,  804, 1763, 2679, 4016,  506, 1085>>

\* an std::array of 4096 elements with 96 initializers: the rest is zero
GOLAY_ENCODE_TABLE ==
    [i \in 0 .. 4095 |->
        IF i < Len(GOLAY_ENCODE_TABLE_INIT) THEN GOLAY_ENCODE_TABLE_INIT[i + 1] ELSE 0]

encode(info) == (info * 4096) + GOLAY_ENCODE_TABLE[info % 4096]

extract_info(codeword) == (codeword \div 4096) % 4096

compute_syndrome(codeword) ==
    Xor(codeword % 4096, GOLAY_ENCODE_TABLE[extract_info(codeword)])

\* the error patterns init_syndrome_table enumerates
ErrorPatterns ==
    {<<b>> : b \in 0 .. 23}
        \cup {<<b[1], b[2]>> : b \in {c \in (0 .. 23) \X (0 .. 23) : c[1] < c[2]}}
        \cup {<<b[1], b[2], b[3]>> :
                 b \in {c \in (0 .. 23) \X (0 .. 23) \X (0 .. 23) : c[1] < c[2] /\ c[2] < c[3]}}

\* (1U << bit1) | (1U << bit2) | (1U << bit3)
RECURSIVE PatternWord(_)
PatternWord(p) == IF p = <<>> THEN 0 ELSE (2 ^ p[Len(p)]) + PatternWord(SubSeq(p, 1, Len(p) - 1))

PatternSyndrome == [p \in ErrorPatterns |-> compute_syndrome(PatternWord(p))]

\* the place of a pattern in the enumeration: the loops over one bit come
\* first, then those over two, then those over three, each in ascending order
PatternOrder(p) ==
    (Len(p) * 13824) + (p[1] * 576)
        + (IF Len(p) > 1 THEN p[2] * 24 ELSE 0) + (IF Len(p) > 2 THEN p[3] ELSE 0)

\* syndrome_table[syndrome] after init_syndrome_table: the first pattern
\* enumerated with that syndrome; <<-1>> stands for 0xFFFFFFFF
init_syndrome_table(syndrome) ==
    LET found == {p \in ErrorPatterns : PatternSyndrome[p] = syndrome}
    IN  IF syndrome = 0 THEN <<>>
        ELSE IF found = {} THEN <<-1>>
        ELSE CHOOSE p \in found : \A q \in found : PatternOrder(p) <= PatternOrder(q)

\* decode(codeword, output): the value returned and the word left in output
decode(codeword) ==
    LET syndrome      == compute_syndrome(codeword)
        error_pattern == init_syndrome_table(syndrome)
    IN  IF syndrome = 0
        THEN [ret |-> 0, output |-> extract_info(codeword)]
        ELSE IF error_pattern = <<-1>>
        THEN [ret |-> 255, output |-> extract_info(codeword)]
        ELSE [ret    |-> Len(error_pattern),
              output |-> extract_info(Xor(codeword, PatternWord(error_pattern)))]

-----------------------------------------------------------------------------
(* The host of the Golay codec: src/tests/test_fsk_core.cpp *)

\* Error correction capability of the code: 3 bits
CORRECTABLE_ERRORS == 3

\* the information words encoded: those of test_golay_codec and the ends of
\* the initialized part of the encode table
GolayInfos == {0, 1, 63, 95, 96, 291, 1365, 2748, 4095}

\* the bits an error may flip: parity bits and information bits
GolayErrorBits == {0, 5, 7, 11, 12, 15, 17, 19, 23}

GolayErrors ==
    {<<>>} \cup {p \in ErrorPatterns :
                    /\ Len(p) <= CORRECTABLE_ERRORS
                    /\ \A k \in 1 .. Len(p) : p[k] \in GolayErrorBits}

GolayInitial ==
    [syndrome_table_initialized |-> FALSE,
     op |-> "none", info |-> 0, error |-> <<>>, codeword |-> 0,
     ret |-> 0, output |-> 0]

\* uint32_t codeword = Golay::encode(original)
GolayEncode(info) ==
    /\ golay' = [golay EXCEPT !.op = "encode", !.info = info, !.error = <<>>,
                              !.codeword = encode(info), !.ret = 0, !.output = 0]
    /\ UNCHANGED <<link_vars, arq_vars, asm_vars, codec, lqa, metrics>>

\* uint32_t corrupted = codeword ^ (1U << 5)
GolayCorrupt(error) ==
    /\ golay.op = "encode"
    /\ golay' = [golay EXCEPT !.op = "corrupt", !.error = error,
                              !.codeword = Xor(golay.codeword, PatternWord(error))]
    /\ UNCHANGED <<link_vars, arq_vars, asm_vars, codec, lqa, metrics>>

\* uint8_t errors = Golay::decode(corrupted, decoded)
GolayDecode ==
    /\ golay.op \in {"encode", "corrupt"}
    /\ LET r == decode(golay.codeword)
       IN  golay' = [golay EXCEPT !.op = "decode", !.ret = r.ret, !.output = r.output,
                                  !.syndrome_table_initialized = TRUE]
    /\ UNCHANGED <<link_vars, arq_vars, asm_vars, codec, lqa, metrics>>

GolayInit == golay = GolayInitial

GolayNext ==
    \/ \E info \in GolayInfos : GolayEncode(info)
    \/ \E error \in GolayErrors : GolayCorrupt(error)
    \/ GolayDecode

-----------------------------------------------------------------------------
(* The LQA metrics collector: src/src/lqa_metrics.cpp *)

\* MetricsConfig::averaging_window as constructed
DEFAULT_AVERAGING_WINDOW == 10

\* A MetricsSample is [snr_db, fec_errors_corrected, timestamp_ms], the SNR in
\* tenths of a dB as in the database; the powers and the multipath delay, which
\* only feed the SINAD, multipath and noise floor members, are left out.

\* the sum_snr of compute_average
RECURSIVE SumSnr(_)
SumSnr(samples) ==
    IF samples = <<>> THEN 0 ELSE Head(samples).snr_db + SumSnr(Tail(samples))

\* LQAMetrics::compute_average; the quotient is rounded down
compute_average(samples) ==
    IF samples = <<>>
    THEN [snr_db |-> 0, fec_errors_corrected |-> 0, timestamp_ms |-> 0]
    ELSE [snr_db |-> SumSnr(samples) \div Len(samples),
          fec_errors_corrected |-> 0,
          timestamp_ms |-> samples[Len(samples)].timestamp_ms]

\* LQAMetrics::estimate_ber, in 1/10000 as in the database, rounded down
estimate_ber(errors_corrected, total_words) ==
    IF total_words = 0
    THEN 0
    ELSE LET ber == (errors_corrected * 10000) \div (total_words * 24)
         IN  IF ber > 10000 THEN 10000 ELSE IF ber < 0 THEN 0 ELSE ber

\* LQADatabase::update_entry_extended (src/src/lqa_database.cpp): on the members
\* of an entry that are modelled it does what update_entry does
update_entry_extended(entries, frequency_hz, remote_station, snr_db, ber, fec_errors, total_words, timestamp_ms, clock) ==
    update_entry(entries, frequency_hz, remote_station, snr_db, ber,
                 fec_errors, total_words, timestamp_ms, clock)

\* LQAMetrics::update_database with a database set: the collector and the
\* entries of the database afterwards
update_database(m, entries, frequency_hz, remote_station, clock) ==
    IF m.samples_ = <<>>
    THEN [m |-> m, entries |-> entries]
    ELSE LET avg == compute_average(m.samples_)
             ber == estimate_ber(m.accumulated_.total_fec_errors,
                                 m.accumulated_.total_words)
         IN  [m |-> [m EXCEPT !.accumulated_.total_fec_errors = 0,
                              !.accumulated_.total_words = 0],
              entries |-> update_entry_extended(entries, frequency_hz, remote_station,
                              avg.snr_db, ber,
                              m.accumulated_.total_fec_errors,
                              m.accumulated_.total_words,
                              avg.timestamp_ms, clock)]

\* LQAMetrics::add_sample
add_sample(m, entries, sample, frequency_hz, remote_station, clock) ==
    LET pushed == [m EXCEPT !.samples_ = Append(@, sample),
                            !.accumulated_.frequency_hz = frequency_hz,
                            !.accumulated_.remote_station = remote_station,
                            !.accumulated_.total_fec_errors = @ + sample.fec_errors_corrected,
                            !.accumulated_.total_words = @ + 1]
    IN  IF Len(pushed.samples_) >= pushed.config_.averaging_window
        THEN LET r == update_database(pushed, entries, frequency_hz, remote_station, clock)
                 last == r.m.samples_[Len(r.m.samples_)]
             IN  [m |-> [r.m EXCEPT !.samples_ = <<last>>], entries |-> r.entries]
        ELSE [m |-> pushed, entries |-> entries]

\* LQAMetrics::reset
LQAMetrics_reset(m) ==
    [m EXCEPT !.samples_ = <<>>,
              !.accumulated_.total_fec_errors = 0,
              !.accumulated_.total_words = 0]

-----------------------------------------------------------------------------
(* The host of a metrics collector: src/tests/test_lqa_metrics.cpp *)

\* add_sample calls in a behaviour
MaxAdded == 3

\* the frequencies of test_multiple_frequencies
MetricsFrequencies == {7073000, 10142000}

\* "REMOTE"
MetricsStations == {<<82, 69, 77, 79, 84, 69>>}

\* SNR 18.0 and 22.0 dB with one or two corrected errors; the timestamp is
\* left at the 0 of a constructed sample
MetricsSamples ==
    [snr_db : {180, 220}, fec_errors_corrected : {1, 2}, timestamp_ms : {0}]

\* the windows a host configures
MetricsWindows == {2, 3}

\* LQAMetrics metrics(&db), with nothing added yet
MetricsInitial ==
    [samples_ |-> <<>>,
     accumulated_ |-> [frequency_hz |-> 0, remote_station |-> <<>>,
                       total_fec_errors |-> 0, total_words |-> 0],
     config_ |-> [averaging_window |-> DEFAULT_AVERAGING_WINDOW],
     op |-> "new",
     added |-> <<>>]

\* config.averaging_window = window; metrics.set_config(config)
MetricsSetConfig(window) ==
    /\ metrics' = [metrics EXCEPT !.config_.averaging_window = window,
                                  !.op = "set_config"]
    /\ UNCHANGED <<link_vars, arq_vars, asm_vars, codec, lqa, golay>>

\* metrics.add_sample(sample, frequency_hz, remote_station); added records the
\* call
MetricsAddSample(sample, frequency_hz, remote_station) ==
    /\ Len(metrics.added) < MaxAdded
    /\ \E clock \in LqaClock :
           LET r == add_sample(metrics, lqa, sample, frequency_hz, remote_station, clock)
           IN  /\ metrics' = [r.m EXCEPT !.op = "add_sample",
                                  !.added = Append(@, [sample |-> sample,
                                                       frequency_hz |-> frequency_hz,
                                                       remote_station |-> remote_station])]
               /\ lqa' = r.entries
    /\ UNCHANGED <<link_vars, arq_vars, asm_vars, codec, golay>>

\* metrics.reset()
MetricsReset ==
    /\ metrics' = [LQAMetrics_reset(metrics) EXCEPT !.op = "reset"]
    /\ UNCHANGED <<link_vars, arq_vars, asm_vars, codec, lqa, golay>>

MetricsInit == metrics = MetricsInitial

MetricsNext ==
    \/ \E window \in MetricsWindows : MetricsSetConfig(window)
    \/ \E sample \in MetricsSamples, frequency_hz \in MetricsFrequencies,
          remote_station \in MetricsStations :
           MetricsAddSample(sample, frequency_hz, remote_station)
    \/ MetricsReset

-----------------------------------------------------------------------------
(* FS-1052 Variable ARQ: src/src/fs1052/fs1052_arq.cpp *)

ARQStates == {"IDLE", "TX_DATA", "WAIT_ACK", "RX_DATA", "SEND_ACK", "RETRANSMIT", "ERROR"}

ARQEvents == {"START_TX", "DATA_READY", "FRAME_SENT", "ACK_RECEIVED", "NAK_RECEIVED",
              "TIMEOUT", "START_RX", "FRAME_RECEIVED", "TRANSFER_COMPLETE",
              "ERROR_EVENT", "RESET"}

DEFAULT_ACK_TIMEOUT == 5000
DEFAULT_MAX_RETRANSMITS == 3
DEFAULT_WINDOW_SIZE == 16

\* VariableARQ::VariableARQ followed by init() with the three callbacks set.
\* Left out are members no method reads: m_prev_state, m_stats,
\* m_expected_sequence, m_rx_msg_length, DataBlock::timestamp.
ArqInitial ==
    [m_state |-> "IDLE",
     m_tx_blocks |-> <<>>,
     m_retransmit_queue |-> <<>>,
     m_next_tx_sequence |-> 0,
     m_window_base |-> 0,
     m_window_size |-> DEFAULT_WINDOW_SIZE,
     m_rx_buffer |-> <<>>,
     m_rx_bitmap |-> {},
     m_last_tx_time |-> 0,
     m_ack_timeout |-> DEFAULT_ACK_TIMEOUT,
     m_wait_start_time |-> 0,
     m_data_rate |-> BPS_2400,
     m_max_retransmits |-> DEFAULT_MAX_RETRANSMITS]

\* A call in progress on a VariableARQ: the object, the frames the transmit
\* callback has received so far, the transitions the state callback has
\* received, the number of messages the error callback has received, the value
\* the call returns, and whether the call has entered a loop it never leaves.
ArqCtx(a) == [a |-> a, out |-> <<>>, trans |-> <<>>, errs |-> 0, ret |-> TRUE,
              hung |-> FALSE]

RECURSIVE arq_process_event(_, _)
RECURSIVE send_loop(_, _)
RECURSIVE retransmit_loop(_)

\* VariableARQ::transition_to
arq_transition_to(c, new_state) ==
    IF new_state # c.a.m_state
    THEN [c EXCEPT !.a.m_state = new_state,
                   !.trans = Append(@, <<c.a.m_state, new_state>>)]
    ELSE c

\* VariableARQ::report_error
report_error(c) == [c EXCEPT !.errs = @ + 1]

\* A copy of find_block that returns, of the blocks with the sequence number,
\* the first among those retransmitted least.
find_block_leastRetransmitted(a, sequence) ==
    LET hits == {i \in 1 .. Len(a.m_tx_blocks) : a.m_tx_blocks[i].sequence = sequence}
        least == {i \in hits : \A j \in hits : a.m_tx_blocks[i].retransmit_count
                                                   <= a.m_tx_blocks[j].retransmit_count}
    IN  IF hits = {} THEN 0 ELSE CHOOSE i \in least : \A j \in least : i <= j

\* VariableARQ::find_block: the index in m_tx_blocks of the first block with the
\* sequence number, 0 for nullptr
find_block(a, sequence) ==
    LET hits == {i \in 1 .. Len(a.m_tx_blocks) : a.m_tx_blocks[i].sequence = sequence}
    IN  IF hits = {} THEN 0 ELSE CHOOSE i \in hits : \A j \in hits : i <= j

\* VariableARQ::all_blocks_acked
all_blocks_acked(a) == \A i \in 1 .. Len(a.m_tx_blocks) : a.m_tx_blocks[i].acknowledged

\* VariableARQ::mark_block_acked
mark_block_acked(a, sequence) ==
    LET i == find_block(a, sequence)
    IN  IF i = 0 THEN a ELSE [a EXCEPT !.m_tx_blocks[i].acknowledged = TRUE]

\* VariableARQ::create_blocks
create_blocks(a, length) ==
    LET count == (length + MAX_DATA_BLOCK_LENGTH - 1) \div MAX_DATA_BLOCK_LENGTH
        block(i) ==
            LET offset == (i - 1) * MAX_DATA_BLOCK_LENGTH
                len == IF length - offset < MAX_DATA_BLOCK_LENGTH
                       THEN length - offset
                       ELSE MAX_DATA_BLOCK_LENGTH
            IN  [sequence |-> (i - 1) % 256,
                 offset |-> offset,
                 length |-> len,
                 data |-> VecTake(VecDrop(Message(length), offset), len),
                 acknowledged |-> FALSE,
                 retransmit_count |-> 0]
    IN  [a EXCEPT !.m_tx_blocks = [i \in 1 .. count |-> block(i)],
                  !.m_next_tx_sequence = 0,
                  !.m_window_base = 0]

\* VariableARQ::send_block
send_block(c, sequence) ==
    LET i == find_block(c.a, sequence)
    IN  IF i = 0
        THEN c
        ELSE LET block == c.a.m_tx_blocks[i]
                 frame == [DataFrame EXCEPT
                             !.data_rate_format = 0,
                             !.data_rate = c.a.m_data_rate,
                             !.interleaver_length = 0,
                             !.sequence_number = block.sequence,
                             !.msg_byte_offset = block.offset,
                             !.data_length = block.length,
                             !.data = VecTake(block.data, block.length)]
             IN  [c EXCEPT !.out = @ \o format_data_frame(frame, 1200)]

\* the iteration of the loop of send_next_blocks that finds m_next_tx_sequence
\* k above its present value sends a block: find_block returns one, and it is
\* not acknowledged
SendsAfter(a, k) ==
    LET i == find_block(a, (a.m_next_tx_sequence + k) % 256)
    IN  i # 0 /\ ~a.m_tx_blocks[i].acknowledged

\* The iterations the loop of send_next_blocks can make from now on: up to
\* size() for a message of less than 256 blocks.  m_next_tx_sequence is a
\* uint8_t: it wraps from 255 to 0 and stays below a size() of 256 or more,
\* and after 256 iterations the loop meets the same blocks again.
IterationsAhead(a) ==
    IF Len(a.m_tx_blocks) >= 256
    THEN 0 .. 255
    ELSE 0 .. Len(a.m_tx_blocks) - 1 - a.m_next_tx_sequence

\* the number of iterations that send nothing before the next one that sends,
\* -1 when none will
SkippedAhead(a) ==
    IF SendsAfter(a, 0) THEN 0
    ELSE LET ks == {k \in IterationsAhead(a) : SendsAfter(a, k)}
         IN  IF ks = {} THEN -1 ELSE CHOOSE k \in ks : \A j \in ks : k <= j

\* A copy of the loop of send_next_blocks that does not stop at m_window_size.
send_loop_pastWindow(c, sent) ==
    IF c.a.m_next_tx_sequence < Len(c.a.m_tx_blocks)
    THEN LET k == SkippedAhead(c.a)
             seq == (c.a.m_next_tx_sequence + k) % 256
         IN  IF k >= 0
             THEN send_loop([send_block(c, seq) EXCEPT
                                !.a.m_next_tx_sequence = (seq + 1) % 256], sent + 1)
             ELSE IF Len(c.a.m_tx_blocks) >= 256
                  THEN [c |-> [c EXCEPT !.hung = TRUE], sent |-> sent]
                  ELSE [c |-> [c EXCEPT !.a.m_next_tx_sequence = Len(c.a.m_tx_blocks)],
                        sent |-> sent]
    ELSE [c |-> c, sent |-> sent]

\* The while loop of VariableARQ::send_next_blocks, after sent blocks have been
\* sent, taken from one iteration that sends a block to the next.  The
\* iterations in between only increment m_next_tx_sequence.  When no iteration
\* ahead sends a block, the loop ends with m_next_tx_sequence at size() in a
\* message of less than 256 blocks, and never ends in a longer one, where the
\* uint8_t stays below size().
send_loop(c, sent) ==
    IF sent < c.a.m_window_size /\ c.a.m_next_tx_sequence < Len(c.a.m_tx_blocks)
    THEN LET k == SkippedAhead(c.a)
             seq == (c.a.m_next_tx_sequence + k) % 256
         IN  IF k >= 0
             THEN send_loop([send_block(c, seq) EXCEPT
                                !.a.m_next_tx_sequence = (seq + 1) % 256], sent + 1)
             ELSE IF Len(c.a.m_tx_blocks) >= 256
                  THEN [c |-> [c EXCEPT !.hung = TRUE], sent |-> sent]
                  ELSE [c |-> [c EXCEPT !.a.m_next_tx_sequence = Len(c.a.m_tx_blocks)],
                        sent |-> sent]
    ELSE [c |-> c, sent |-> sent]

\* VariableARQ::send_next_blocks; a loop that never ends keeps the call from
\* returning
send_next_blocks(c) ==
    LET r == send_loop(c, 0)
    IN  IF r.c.hung THEN r.c
        ELSE IF r.sent > 0 THEN arq_process_event(r.c, "FRAME_SENT") ELSE r.c

\* VariableARQ::reset
reset(c) ==
    LET c1 == arq_transition_to(c, "IDLE")
    IN  [c1 EXCEPT !.a.m_tx_blocks = <<>>,
                   !.a.m_retransmit_queue = <<>>,
                   !.a.m_rx_buffer = <<>>,
                   !.a.m_next_tx_sequence = 0,
                   !.a.m_window_base = 0,
                   !.a.m_rx_bitmap = {}]

\* VariableARQ::handle_idle
handle_idle(c, event) ==
    CASE event = "START_TX" ->
            IF c.a.m_tx_blocks # <<>>
            THEN send_next_blocks(arq_transition_to(c, "TX_DATA"))
            ELSE c
      [] event = "START_RX" -> arq_transition_to(c, "RX_DATA")
      [] OTHER -> c

\* VariableARQ::handle_tx_data
handle_tx_data(c, event) ==
    CASE event = "FRAME_SENT" ->
            IF all_blocks_acked(c.a)
            THEN arq_process_event(c, "TRANSFER_COMPLETE")
            ELSE LET c1 == arq_transition_to(c, "WAIT_ACK")
                 IN  [c1 EXCEPT !.a.m_wait_start_time = c1.a.m_last_tx_time]
      [] event = "TRANSFER_COMPLETE" -> arq_transition_to(c, "IDLE")
      [] event = "ERROR_EVENT" -> arq_transition_to(c, "ERROR")
      [] OTHER -> c

\* A copy of handle_wait_ack that answers a partial acknowledgement by entering
\* RETRANSMIT instead of sending the next window.
handle_wait_ack_partialToRetransmit(c, event) ==
    CASE event = "ACK_RECEIVED" ->
            IF all_blocks_acked(c.a)
            THEN arq_transition_to(c, "IDLE")
            ELSE arq_transition_to(c, "RETRANSMIT")
      [] event = "NAK_RECEIVED" -> arq_transition_to(c, "RETRANSMIT")
      [] event = "TIMEOUT" -> arq_transition_to(c, "RETRANSMIT")
      [] event = "ERROR_EVENT" -> arq_transition_to(c, "ERROR")
      [] OTHER -> c

\* VariableARQ::handle_wait_ack
handle_wait_ack(c, event) ==
    CASE event = "ACK_RECEIVED" ->
            IF all_blocks_acked(c.a)
            THEN arq_transition_to(c, "IDLE")
            ELSE IF c.a.m_retransmit_queue # <<>>
                 THEN arq_transition_to(c, "RETRANSMIT")
                 ELSE send_next_blocks(arq_transition_to(c, "TX_DATA"))
      [] event = "NAK_RECEIVED" -> arq_transition_to(c, "RETRANSMIT")
      [] event = "TIMEOUT" -> arq_transition_to(c, "RETRANSMIT")
      [] event = "ERROR_EVENT" -> arq_transition_to(c, "ERROR")
      [] OTHER -> c

\* VariableARQ::handle_rx_data; reassemble_data() has an empty body
handle_rx_data(c, event) ==
    CASE event = "FRAME_RECEIVED" -> arq_transition_to(c, "SEND_ACK")
      [] event = "TRANSFER_COMPLETE" -> arq_transition_to(c, "IDLE")
      [] event = "ERROR_EVENT" -> arq_transition_to(c, "ERROR")
      [] OTHER -> c

\* VariableARQ::handle_send_ack
handle_send_ack(c, event) ==
    IF event = "FRAME_SENT" THEN arq_transition_to(c, "RX_DATA") ELSE c

\* A copy of retransmit_loop that gives up only above max_retransmits.
retransmit_loop_oneMore(c) ==
    IF c.a.m_retransmit_queue = <<>>
    THEN [c |-> c, returned |-> FALSE]
    ELSE LET seq == Head(c.a.m_retransmit_queue)
             c1 == [c EXCEPT !.a.m_retransmit_queue = Tail(@)]
             i == find_block(c1.a, seq)
         IN  IF i # 0 /\ ~c1.a.m_tx_blocks[i].acknowledged
             THEN IF c1.a.m_tx_blocks[i].retransmit_count > c1.a.m_max_retransmits
                  THEN [c |-> arq_transition_to(report_error(c1), "ERROR"),
                        returned |-> TRUE]
                  ELSE LET c2 == send_block(c1, seq)
                       IN  retransmit_loop(
                               [c2 EXCEPT !.a.m_tx_blocks[i].retransmit_count =
                                              (@ + 1) % 256])
             ELSE retransmit_loop(c1)

\* the while loop of VariableARQ::handle_retransmit: [c, returned], returned
\* when the loop left the method from inside
retransmit_loop(c) ==
    IF c.a.m_retransmit_queue = <<>>
    THEN [c |-> c, returned |-> FALSE]
    ELSE LET seq == Head(c.a.m_retransmit_queue)
             c1 == [c EXCEPT !.a.m_retransmit_queue = Tail(@)]
             i == find_block(c1.a, seq)
         IN  IF i # 0 /\ ~c1.a.m_tx_blocks[i].acknowledged
             THEN IF c1.a.m_tx_blocks[i].retransmit_count >= c1.a.m_max_retransmits
                  THEN [c |-> arq_transition_to(report_error(c1), "ERROR"),
                        returned |-> TRUE]
                  ELSE LET c2 == send_block(c1, seq)
                       IN  retransmit_loop(
                               [c2 EXCEPT !.a.m_tx_blocks[i].retransmit_count =
                                              (@ + 1) % 256])
             ELSE retransmit_loop(c1)

\* VariableARQ::handle_retransmit
handle_retransmit(c, event) ==
    IF event = "DATA_READY"
    THEN LET r == retransmit_loop(c)
         IN  IF r.returned
             THEN r.c
             ELSE LET c1 == arq_transition_to(r.c, "WAIT_ACK")
                  IN  [c1 EXCEPT !.a.m_wait_start_time = c1.a.m_last_tx_time]
    ELSE c

\* A copy of process_event in which START_RX, like RESET, takes the machine out
\* of ERROR.
arq_process_event_errorRestarts(c, event) ==
    CASE c.a.m_state = "IDLE" -> handle_idle(c, event)
      [] c.a.m_state = "TX_DATA" -> handle_tx_data(c, event)
      [] c.a.m_state = "WAIT_ACK" -> handle_wait_ack(c, event)
      [] c.a.m_state = "RX_DATA" -> handle_rx_data(c, event)
      [] c.a.m_state = "SEND_ACK" -> handle_send_ack(c, event)
      [] c.a.m_state = "RETRANSMIT" -> handle_retransmit(c, event)
      [] c.a.m_state = "ERROR" ->
            IF event \in {"RESET", "START_RX"} THEN reset(c) ELSE c

\* VariableARQ::process_event
arq_process_event(c, event) ==
    CASE c.a.m_state = "IDLE" -> handle_idle(c, event)
      [] c.a.m_state = "TX_DATA" -> handle_tx_data(c, event)
      [] c.a.m_state = "WAIT_ACK" -> handle_wait_ack(c, event)
      [] c.a.m_state = "RX_DATA" -> handle_rx_data(c, event)
      [] c.a.m_state = "SEND_ACK" -> handle_send_ack(c, event)
      [] c.a.m_state = "RETRANSMIT" -> handle_retransmit(c, event)
      [] c.a.m_state = "ERROR" -> IF event = "RESET" THEN reset(c) ELSE c

\* the bitmap VariableARQ::send_ack builds from m_rx_bitmap
AckBitMap(received) ==
    [k \in 1 .. ACK_MAP_SIZE |->
        (IF 8 * (k - 1) + 0 \in received THEN 1 ELSE 0)
      + (IF 8 * (k - 1) + 1 \in received THEN 2 ELSE 0)
      + (IF 8 * (k - 1) + 2 \in received THEN 4 ELSE 0)
      + (IF 8 * (k - 1) + 3 \in received THEN 8 ELSE 0)
      + (IF 8 * (k - 1) + 4 \in received THEN 16 ELSE 0)
      + (IF 8 * (k - 1) + 5 \in received THEN 32 ELSE 0)
      + (IF 8 * (k - 1) + 6 \in received THEN 64 ELSE 0)
      + (IF 8 * (k - 1) + 7 \in received THEN 128 ELSE 0)]

\* VariableARQ::send_ack.  No method calls it.
send_ack(c) ==
    LET frame == [ControlFrame EXCEPT
                    !.protocol_version = PROTOCOL_VERSION,
                    !.arq_mode = VARIABLE_ARQ,
                    !.ack_nak_type = DATA_ACK,
                    !.bit_map = AckBitMap(c.a.m_rx_bitmap)]
        c1 == [c EXCEPT !.out = Append(@, format_control_frame(frame))]
    IN  arq_process_event(c1, "FRAME_SENT")

\* the sequence numbers whose bit is set in a bitmap; a byte that is 0 has none
AckedIn(bit_map) ==
    UNION {{8 * (k - 1) + j : j \in {j \in 0 .. 7 : BitOf(bit_map[k], j) = 1}} :
              k \in {k \in 1 .. ACK_MAP_SIZE : bit_map[k] # 0}}

\* A copy of process_ack that marks every block, whatever the bitmap says.
process_ack_marksAll(a, frame) ==
    IF frame.ack_nak_type # DATA_ACK
    THEN a
    ELSE [a EXCEPT !.m_tx_blocks =
             [i \in 1 .. Len(a.m_tx_blocks) |->
                [a.m_tx_blocks[i] EXCEPT !.acknowledged = TRUE]]]

\* VariableARQ::process_ack: mark_block_acked(i) for every set bit i, which
\* marks the first block that carries the sequence number i
process_ack(a, frame) ==
    IF frame.ack_nak_type # DATA_ACK
    THEN a
    ELSE LET acked == AckedIn(frame.bit_map)
         IN  [a EXCEPT !.m_tx_blocks =
                 [i \in 1 .. Len(a.m_tx_blocks) |->
                    IF /\ a.m_tx_blocks[i].sequence \in acked
                       /\ find_block(a, a.m_tx_blocks[i].sequence) = i
                    THEN [a.m_tx_blocks[i] EXCEPT !.acknowledged = TRUE]
                    ELSE a.m_tx_blocks[i]]]

\* A copy of process_data_frame without the check for duplicates.
process_data_frame_storesDuplicates(c, frame) ==
    LET seq == frame.sequence_number
        offset == frame.msg_byte_offset
        buffer == VecWrite(VecResize(c.a.m_rx_buffer, offset + frame.data_length),
                           offset, VecTake(frame.data, frame.data_length))
        c1 == [c EXCEPT !.a.m_rx_bitmap = @ \cup {seq},
                        !.a.m_rx_buffer = buffer]
        all_received ==
            \A i \in 0 .. 255 :
                i \notin c1.a.m_rx_bitmap => ~(i < c1.a.m_next_tx_sequence)
    IN  IF all_received THEN arq_process_event(c1, "TRANSFER_COMPLETE") ELSE c1

\* VariableARQ::process_data_frame
process_data_frame(c, frame) ==
    LET seq == frame.sequence_number
        offset == frame.msg_byte_offset
    IN  IF seq \in c.a.m_rx_bitmap
        THEN c
        ELSE LET buffer == VecWrite(VecResize(c.a.m_rx_buffer, offset + frame.data_length),
                                    offset, VecTake(frame.data, frame.data_length))
                 c1 == [c EXCEPT !.a.m_rx_bitmap = @ \cup {seq},
                                 !.a.m_rx_buffer = buffer]
                 all_received ==
                     \A i \in 0 .. 255 :
                         i \notin c1.a.m_rx_bitmap => ~(i < c1.a.m_next_tx_sequence)
             IN  IF all_received THEN arq_process_event(c1, "TRANSFER_COMPLETE") ELSE c1

\* A copy of check_timeouts that fires as soon as the timeout has elapsed.
check_timeouts_atTimeout(c, current_time) ==
    IF current_time - c.a.m_wait_start_time >= c.a.m_ack_timeout
    THEN LET unacked == SelectSeq(c.a.m_tx_blocks, LAMBDA block : ~block.acknowledged)
             c1 == [c EXCEPT !.a.m_retransmit_queue =
                                 @ \o [i \in 1 .. Len(unacked) |-> unacked[i].sequence]]
         IN  arq_process_event(c1, "TIMEOUT")
    ELSE c

\* VariableARQ::check_timeouts; the host's clock never runs backwards, so the
\* unsigned difference is the difference
check_timeouts(c, current_time) ==
    IF current_time - c.a.m_wait_start_time > c.a.m_ack_timeout
    THEN LET unacked == SelectSeq(c.a.m_tx_blocks, LAMBDA block : ~block.acknowledged)
             c1 == [c EXCEPT !.a.m_retransmit_queue =
                                 @ \o [i \in 1 .. Len(unacked) |-> unacked[i].sequence]]
         IN  arq_process_event(c1, "TIMEOUT")
    ELSE c

\* VariableARQ::start_transmission
start_transmission(c, length) ==
    IF c.a.m_state # "IDLE"
    THEN [report_error(c) EXCEPT !.ret = FALSE]
    ELSE arq_process_event([c EXCEPT !.a = create_blocks(c.a, length)], "START_TX")

\* VariableARQ::handle_received_frame
handle_received_frame(c, w) ==
    IF WireLen(w) < 1
    THEN c
    ELSE IF detect_frame_type(w) = DATA
         THEN LET p == parse_data_frame(w)
              IN  IF p.ok
                  THEN arq_process_event(process_data_frame(c, p.frame), "FRAME_RECEIVED")
                  ELSE c
         ELSE IF detect_frame_type(w) # NO_FRAME
              THEN LET p == parse_control_frame(w)
                   IN  IF p.ok
                       THEN arq_process_event([c EXCEPT !.a = process_ack(c.a, p.frame)],
                                              "ACK_RECEIVED")
                       ELSE c
              ELSE c

\* VariableARQ::update
arq_update(c, current_time_ms) ==
    LET c1 == [c EXCEPT !.a.m_last_tx_time = current_time_ms]
    IN  IF c1.a.m_state = "WAIT_ACK" THEN check_timeouts(c1, current_time_ms) ELSE c1

\* VariableARQ::is_transfer_complete
is_transfer_complete(a) ==
    IF a.m_state = "IDLE" /\ a.m_tx_blocks # <<>>
    THEN all_blocks_acked(a)
    ELSE a.m_state = "IDLE"

\* VariableARQ::get_received_data
get_received_data(a) == a.m_rx_buffer

\* VariableARQ::set_window_size
set_window_size(a, size) == [a EXCEPT !.m_window_size = size]


-----------------------------------------------------------------------------
(* Bounds of the ARQ models *)

\* blocks in the longest message the host sends
MaxBlocks == 2
\* update() calls a test makes on the object under test: one timeout more than
\* the retransmissions a block is allowed
MaxArqUpdates == DEFAULT_MAX_RETRANSMITS + 1
\* the host's clock at its last tick during a transfer, in ms
MaxTime == 5200
\* acknowledgement frames in flight towards the sender
MaxAcksInFlight == 1
\* blocks of the messages whose acknowledgement is followed through the codec
AckBlocks == 10

\* the period of the host's main loop during a transfer, in ms
TickPeriod == 100

\* message lengths: empty, a short one, and one byte into the last block
MsgLengths == {0, 5, MAX_DATA_BLOCK_LENGTH * (MaxBlocks - 1) + 1}

\* clock advances between two update() calls of the test harness: the two on
\* either side of the acknowledgement timeout
ArqTimeSteps == {DEFAULT_ACK_TIMEOUT, DEFAULT_ACK_TIMEOUT + 1}

WindowSizes == {1, DEFAULT_WINDOW_SIZE}

\* the messages whose acknowledgement is followed through the codec, and the
\* sequence numbers the receiver may have stored: both ends of the first byte
\* of the bitmap, the start of the second, and the last block
AckLengths == {MAX_DATA_BLOCK_LENGTH * (AckBlocks - 2) + 1,
               MAX_DATA_BLOCK_LENGTH * (AckBlocks - 1) + 1}

AckSample == {0, 1, 7, 8, AckBlocks - 1}

-----------------------------------------------------------------------------
(* The hosts of the ARQ machine *)

\* the data frames a sender emits for a message
DataFramesOf(length) == start_transmission(ArqCtx(ArqInitial), length).out

\* an acknowledgement frame as a peer or a test builds it
AckFrame(frame_type, ack_nak_type, received) ==
    format_control_frame([ControlFrame EXCEPT
                            !.frame_type = frame_type,
                            !.ack_nak_type = ack_nak_type,
                            !.bit_map = AckBitMap(received)])

\* the data frames a receiver test passes to handle_received_frame: the frames
\* of the messages, and one of them with a wrong CRC
TestDataFrames ==
    UNION {{DataFramesOf(length)[i] : i \in 1 .. Len(DataFramesOf(length))} :
              length \in MsgLengths}
    \cup {[DataFramesOf(5)[1] EXCEPT !.crc_ok = FALSE]}

\* the control frames a sender test passes to handle_received_frame:
\* acknowledgements of every set of blocks in a frame that carries the bitmap,
\* and two in frames that do not
TestControlFrames ==
    {AckFrame(T2_CONTROL, DATA_ACK, received) : received \in SUBSET (0 .. MaxBlocks - 1)}
    \cup {AckFrame(NO_FRAME, DATA_ACK, {0}), AckFrame(T2_CONTROL, NULL_ACK, {0})}

\* The host program: its clock (the argument of its last update() call), the
\* length of the message it has passed to start_transmission (-1: none yet),
\* the update() calls a test has made, whether the receiver was in RX mode when
\* the transmission started, and the acknowledgements built for the receiver.
HostInitial == [now |-> 0, msg |-> -1, updates |-> 0, rx_first |-> FALSE, acks |-> 0]

ChanInitial == [to_peer |-> <<>>, to_arq |-> <<>>]

\* A call of a test on the object under test, when it returns.  The test's
\* callbacks keep what they receive to themselves: nothing is passed on to a
\* peer.
TestReturn(c) ==
    /\ ~c.hung
    /\ arq' = c.a
    /\ UNCHANGED <<peer, chan, link_vars, unit_vars>>

TestStartTransmission(length) ==
    /\ TestReturn(start_transmission(ArqCtx(arq), length))
    /\ UNCHANGED host

TestProcessEvent(event) ==
    /\ TestReturn(arq_process_event(ArqCtx(arq), event))
    /\ UNCHANGED host

TestHandleReceivedFrame(w) ==
    /\ TestReturn(handle_received_frame(ArqCtx(arq), w))
    /\ UNCHANGED host

TestUpdate(dt) ==
    /\ host.updates < MaxArqUpdates
    /\ TestReturn(arq_update(ArqCtx(arq), host.now + dt))
    /\ host' = [host EXCEPT !.now = @ + dt, !.updates = @ + 1]

TestReset ==
    /\ TestReturn(reset(ArqCtx(arq)))
    /\ UNCHANGED host

\* the tests set the window before they start a transmission
TestSetWindowSize(size) ==
    /\ arq.m_state = "IDLE" /\ arq.m_tx_blocks = <<>>
    /\ TestReturn(ArqCtx(set_window_size(arq, size)))
    /\ UNCHANGED host

-----------------------------------------------------------------------------
(* Two ARQ objects and a channel between them, as in                       *)
(* src/examples/example_fs1052_transfer.cpp: the transmit callback of each *)
(* object puts its frames on the queue towards the other.                  *)

Dirs == {"to_peer", "to_arq"}

Reverse(dir) == IF dir = "to_peer" THEN "to_arq" ELSE "to_peer"

\* receiver.process_event(ARQEvent::START_RX), once, before anything arrives
StartRx ==
    /\ peer.m_state = "IDLE" /\ peer.m_rx_bitmap = {} /\ host.msg = -1
    /\ peer' = arq_process_event(ArqCtx(peer), "START_RX").a
    /\ UNCHANGED <<arq, chan, host, link_vars, unit_vars>>

\* sender.start_transmission(message, length), once, before the first tick
StartTransmission(length) ==
    /\ host.msg = -1 /\ host.now = 0
    /\ LET c == start_transmission(ArqCtx(arq), length)
       IN  /\ ~c.hung
           /\ arq' = c.a
           /\ chan' = [chan EXCEPT !.to_peer = @ \o c.out]
    /\ host' = [host EXCEPT !.msg = length, !.rx_first = (peer.m_state = "RX_DATA")]
    /\ UNCHANGED <<peer, link_vars, unit_vars>>

\* the channel hands its oldest frame in one direction to handle_received_frame
Deliver(dir) ==
    /\ chan[dir] # <<>>
    /\ LET c == handle_received_frame(ArqCtx(IF dir = "to_peer" THEN peer ELSE arq),
                                      Head(chan[dir]))
       IN  /\ ~c.hung
           /\ peer' = IF dir = "to_peer" THEN c.a ELSE peer
           /\ arq' = IF dir = "to_peer" THEN arq ELSE c.a
           /\ chan' = [chan EXCEPT ![dir] = Tail(@), ![Reverse(dir)] = @ \o c.out]
    /\ UNCHANGED <<host, link_vars, unit_vars>>

\* the channel drops its oldest frame in one direction
Lose(dir) ==
    /\ chan[dir] # <<>>
    /\ chan' = [chan EXCEPT ![dir] = Tail(@)]
    /\ UNCHANGED <<arq, peer, host, link_vars, unit_vars>>

\* time_ms += 100; sender.update(time_ms); receiver.update(time_ms)
Tick ==
    /\ host.now < MaxTime
    /\ LET now == host.now + TickPeriod
           c == arq_update(ArqCtx(arq), now)
           d == arq_update(ArqCtx(peer), now)
       IN  /\ arq' = c.a
           /\ peer' = d.a
           /\ chan' = [chan EXCEPT !.to_peer = @ \o c.out, !.to_arq = @ \o d.out]
           /\ host' = [host EXCEPT !.now = now]
    /\ UNCHANGED <<link_vars, unit_vars>>

\* the sender's host answers the state callback's RETRANSMIT with
\* sender.process_event(ARQEvent::DATA_READY)
DataReady ==
    /\ arq.m_state = "RETRANSMIT"
    /\ LET c == arq_process_event(ArqCtx(arq), "DATA_READY")
       IN  /\ arq' = c.a
           /\ chan' = [chan EXCEPT !.to_peer = @ \o c.out]
    /\ UNCHANGED <<peer, host, link_vars, unit_vars>>

\* The receiver's host acknowledges for the receiver, which emits no frame of
\* its own: a DATA_ACK of the blocks the receiver has stored, in a frame that
\* carries the bitmap, as src/tests/test_fs1052_arq.cpp builds its
\* acknowledgements.
RelayAck ==
    /\ host.msg >= 0
    /\ Len(chan.to_arq) < MaxAcksInFlight
    /\ chan' = [chan EXCEPT !.to_arq =
                   Append(@, AckFrame(T2_CONTROL, DATA_ACK, peer.m_rx_bitmap))]
    /\ UNCHANGED <<arq, peer, host, link_vars, unit_vars>>

\* the receiver builds its acknowledgement with send_ack
AckBuild ==
    /\ host.acks = 0
    /\ LET c == send_ack(ArqCtx(peer))
       IN  /\ peer' = c.a
           /\ chan' = [chan EXCEPT !.to_arq = @ \o c.out]
    /\ host' = [host EXCEPT !.acks = 1]
    /\ UNCHANGED <<arq, link_vars, unit_vars>>

\* the receiver after START_RX and the frames handed to it in turn
RECURSIVE Received(_, _)
Received(a, frames) ==
    IF frames = <<>> THEN a
    ELSE Received(handle_received_frame(ArqCtx(a), Head(frames)).a, Tail(frames))

\* both ARQ objects constructed, nothing in flight
ArqStart ==
    /\ arq = ArqInitial
    /\ peer = ArqInitial
    /\ chan = ChanInitial
    /\ host = HostInitial

ArqInit == ArqStart /\ LinkInit /\ AsmInit /\ CodecInit /\ LqaInit /\ GolayInit /\ MetricsInit

\* a test of the sending side
SenderNext ==
    \/ \E length \in MsgLengths : TestStartTransmission(length)
    \/ \E event \in ARQEvents : TestProcessEvent(event)
    \/ \E w \in TestControlFrames : TestHandleReceivedFrame(w)
    \/ \E dt \in ArqTimeSteps : TestUpdate(dt)
    \/ TestReset
    \/ \E size \in WindowSizes : TestSetWindowSize(size)

SenderSpec == ArqInit /\ [][SenderNext]_vars

\* a test of the receiving side
ReceiverNext ==
    \/ \E length \in MsgLengths : TestStartTransmission(length)
    \/ \E event \in ARQEvents : TestProcessEvent(event)
    \/ \E w \in TestDataFrames : TestHandleReceivedFrame(w)
    \/ TestReset

ReceiverSpec == ArqInit /\ [][ReceiverNext]_vars

\* a transfer with both hosts doing their part
SessionNext ==
    \/ StartRx
    \/ \E length \in MsgLengths : StartTransmission(length)
    \/ \E dir \in Dirs : Deliver(dir)
    \/ \E dir \in Dirs : Lose(dir)
    \/ Tick
    \/ DataReady
    \/ RelayAck

SessionSpec == ArqInit /\ [][SessionNext]_vars

\* A transfer in which the main loop never stops calling update() while its
\* clock runs and the sender's host never leaves a RETRANSMIT unanswered:
\* DataReady is enabled exactly in RETRANSMIT and always leaves it.
FairSessionSpec ==
    /\ ArqInit
    /\ [][SessionNext]_vars
    /\ WF_vars(Tick)
    /\ []<>(arq.m_state # "RETRANSMIT")

\* a transfer driven by frame delivery and update() alone
TransferNext ==
    \/ StartRx
    \/ \E length \in MsgLengths : StartTransmission(length)
    \/ \E dir \in Dirs : Deliver(dir)
    \/ \E dir \in Dirs : Lose(dir)
    \/ Tick

\* The main loop never stops calling update() while its clock runs.
FairTransferSpec ==
    /\ ArqInit
    /\ [][TransferNext]_vars
    /\ WF_vars(Tick)

\* A sender that has sent a message and is waiting, and a receiver that has
\* stored some of its blocks.
AckInit ==
    /\ \E length \in AckLengths :
         \E received \in SUBSET AckSample :
            /\ received \subseteq 0 .. Len(DataFramesOf(length)) - 1
            /\ arq = start_transmission(ArqCtx(ArqInitial), length).a
            /\ peer = Received(arq_process_event(ArqCtx(ArqInitial), "START_RX").a,
                               SelectSeq(DataFramesOf(length),
                                         LAMBDA w : w.head[3] \in received))
            /\ host = [HostInitial EXCEPT !.msg = length]
    /\ chan = ChanInitial
    /\ LinkInit
    /\ AsmInit
    /\ CodecInit
    /\ LqaInit
    /\ GolayInit
    /\ MetricsInit

\* the acknowledgement path: built by the receiver, delivered to the sender
AckNext ==
    \/ AckBuild
    \/ \E dir \in {"to_arq"} : Deliver(dir)

AckSpec == AckInit /\ [][AckNext]_vars

LinkSpecInit == LinkInit /\ ArqStart /\ AsmInit /\ CodecInit /\ LqaInit /\ GolayInit /\ MetricsInit

LinkSpec == LinkSpecInit /\ [][LinkNext]_vars

\* the addresses a calling host works with: its own, of four characters as in
\* src/tests/test_state_machine.cpp and of three, and the stations it calls
CallSelfAddresses == {<<"W", "1", "A", "W">>, <<"W", "1", "A">>}

CallAddresses == {<<"K", "6", "K", "B">>, <<"N", "1">>}

\* the words a receiver hands in: three characters each, padded with spaces,
\* one of them all spaces
ReceivedWords ==
    [type : {"TO", "TWS", "FROM"},
     address : {<<"W", "1", "A">>, <<"N", "1", " ">>, <<" ", " ", " ">>},
     fec_errors : {1},
     valid : BOOLEAN,
     timestamp_ms : {1000}]

\* a station that calls and is called
LinkCallNext ==
    \/ \E event \in ALEEvents : LinkProcessEvent(event)
    \/ LinkAddScanChannel
    \/ \E address \in CallSelfAddresses : LinkSetSelfAddress(address)
    \/ \E address \in CallAddresses : LinkInitiateCall(address)
    \/ \E address \in CallAddresses : LinkInitiateNetCall(address)
    \/ \E word \in ReceivedWords : LinkProcessReceivedWord(word)

LinkCallSpec == LinkSpecInit /\ [][LinkCallNext]_vars

\* A host with a clock of its own: it lets time pass, passes its clock to
\* update(), and makes its other calls whenever it likes.  link_call holds
\* the last call, the host's clock (now), how often the host has let time
\* pass, and the host's clock when the machine entered the state it is in.
MaxClockWaits == 2

\* the times a host lets pass, in ms: short of a word, a second, and what is
\* left of the call timeout and of the word duration after these
ClockSteps == {100, 1000, WORD_DURATION_MS + 1 - 100, CALL_TIMEOUT_MS + 1 - 1000}

ClockReturn(c, op) ==
    /\ link' = c.m
    /\ link_call' = [link_call EXCEPT
                        !.op = op,
                        !.entered = IF c.states # <<>> THEN link_call.now ELSE @]
    /\ link_out' = [words |-> c.words, chans |-> c.chans, states |-> c.states]
    /\ UNCHANGED <<arq_vars, unit_vars>>

ClockWait(dt) ==
    /\ link_call.waits < MaxClockWaits
    /\ link_call' = [link_call EXCEPT !.op = "wait", !.now = @ + dt, !.waits = @ + 1]
    /\ UNCHANGED <<link, link_out, arq_vars, unit_vars>>

ClockUpdate == ClockReturn(link_update(LinkCtx(link), link_call.now), "update")

ClockProcessEvent(event) ==
    ClockReturn(process_event(LinkCtx(link), event), "process_event")

ClockInitiateCall(address) ==
    ClockReturn(initiate_call(LinkCtx(link), address), "initiate_call")

LinkClockInit ==
    /\ link = LinkInitial
    /\ link_call = [op |-> "new", now |-> 0, waits |-> 0, entered |-> 0]
    /\ link_out = [words |-> <<>>, chans |-> <<>>, states |-> <<>>]
    /\ ArqStart /\ AsmInit /\ CodecInit /\ LqaInit /\ GolayInit /\ MetricsInit

LinkClockNext ==
    \/ \E dt \in ClockSteps : ClockWait(dt)
    \/ ClockUpdate
    \/ \E event \in ALEEvents : ClockProcessEvent(event)
    \/ \E address \in CallAddresses : ClockInitiateCall(address)

LinkClockSpec == LinkClockInit /\ [][LinkClockNext]_vars

\* channels in the scan list of a scanning station, and the update() calls it
\* receives
MaxScanChannels == 3
MaxScanUpdates == 3

ScanAddChannel ==
    /\ Len(link.scan_list) < MaxScanChannels
    /\ LinkReturn(LinkCtx([link EXCEPT !.scan_list =
                              Append(@, Channel(7100000 + 1000 * Len(link.scan_list)))]),
                  "add_scan_channel", "", link.current_state)

ScanUpdate(dt) ==
    /\ link_call.updates < MaxScanUpdates
    /\ LinkReturn(link_update(LinkCtx(link), link.current_time_ms + dt), "update", "",
                  link.current_state)

\* a station that fills its scan list, starts and stops scanning, and is
\* updated
ScanNext ==
    \/ ScanAddChannel
    \/ \E event \in {"START_SCAN", "STOP_SCAN"} : LinkProcessEvent(event)
    \/ \E dt \in LinkTimeSteps(link.current_state) : ScanUpdate(dt)

ScanSpec == LinkSpecInit /\ [][ScanNext]_vars

\* a receiver feeding decoded words to a message assembler
AssemblerSpec == LinkSpecInit /\ [][AsmNext]_vars

CodecSpecInit == LinkInit /\ ArqStart /\ AsmInit /\ CodecStart /\ LqaInit /\ GolayInit /\ MetricsInit

\* a test of the frame formatter and parser on one data frame
CodecSpec == CodecSpecInit /\ [][CodecNext]_vars

\* a program recording measurements in an LQA database
LqaSpec == LinkSpecInit /\ [][LqaNext]_vars

\* the Golay codec alone
GolaySpec == LinkSpecInit /\ [][GolayNext]_vars

\* a metrics collector feeding an LQA database
MetricsSpec == LinkSpecInit /\ [][MetricsNext]_vars

-----------------------------------------------------------------------------
(* Claims about the link state machine *)

\* The transition table of the link machine, with ERROR + START_SCAN -> SCANNING
\* and ERROR + any other event -> IDLE.
Listed(from, event) ==
    CASE from = "IDLE" /\ event = "START_SCAN" -> "SCANNING"
      [] from = "IDLE" /\ event = "CALL_REQUEST" -> "CALLING"
      [] from = "IDLE" /\ event = "SOUNDING_REQUEST" -> "SOUNDING"
      [] from = "SCANNING" /\ event = "STOP_SCAN" -> "IDLE"
      [] from = "SCANNING" /\ event = "CALL_DETECTED" -> "HANDSHAKE"
      [] from = "SCANNING" /\ event = "CALL_REQUEST" -> "CALLING"
      [] from = "CALLING" /\ event = "HANDSHAKE_COMPLETE" -> "LINKED"
      [] from = "CALLING" /\ event = "LINK_TIMEOUT" -> "IDLE"
      [] from = "HANDSHAKE" /\ event = "HANDSHAKE_COMPLETE" -> "LINKED"
      [] from = "HANDSHAKE" /\ event = "LINK_TIMEOUT" -> "SCANNING"
      [] from = "LINKED" /\ event = "LINK_TERMINATED" -> "IDLE"
      [] from = "LINKED" /\ event = "LINK_TIMEOUT" -> "IDLE"
      [] from = "SOUNDING" /\ event = "SOUNDING_COMPLETE" -> "SCANNING"
      [] from = "ERROR" /\ event = "START_SCAN" -> "SCANNING"
      [] from = "ERROR" /\ event # "START_SCAN" -> "IDLE"
      [] OTHER -> "unlisted"

\* C3: after process_event(e) with e other than ERROR_OCCURRED, the machine is in
\* the state the transition table lists for (state before, e); for an unlisted
\* pair the state is the one before and the call returned false.
C3_TransitionTable ==
    (link_call.op = "process_event" /\ link_call.event # "ERROR_OCCURRED") =>
        IF Listed(link_call.from, link_call.event) # "unlisted"
        THEN link.current_state = Listed(link_call.from, link_call.event)
        ELSE link.current_state = link_call.from /\ link_call.ret = FALSE

\* C3 witness: a listed pair (CALLING + LINK_TIMEOUT) and an unlisted pair's
\* neighbour have been processed; here the listed one.
C3_Witness ==
    /\ link_call.op = "process_event"
    /\ link_call.from = "CALLING"
    /\ link_call.event = "LINK_TIMEOUT"
    /\ link.current_state = "IDLE"

\* C4: after process_event(ERROR_OCCURRED) the machine is in ERROR, whatever the
\* state before.
C4_ErrorOccurredReachesError ==
    (link_call.op = "process_event" /\ link_call.event = "ERROR_OCCURRED") =>
        link.current_state = "ERROR"

-----------------------------------------------------------------------------
(* A test of a message long enough for its sequence numbers to wrap, after   *)
(* test_sequence_wrapping of src/tests/test_fs1052_arq.cpp: arq is the       *)
(* sender under test, peer a receiver under test.                            *)

\* the window test_sequence_wrapping sets
WrapTestWindow == 10

\* the windows of the test: the one it sets, and the default
WrapWindowSizes == {WrapTestWindow, DEFAULT_WINDOW_SIZE}

\* the timeout passes only while at most this many blocks are unacknowledged
MaxWrapQueue == 2

\* a message of 257 blocks: the last block carries sequence number 0 again
WrapLength == 256 * MAX_DATA_BLOCK_LENGTH + 1

\* the blocks whose frames the receiver test passes in: the first two and the
\* one that reuses sequence number 0
WrapRxBlocks == {1, 2, 257}

\* the clock advance of the sender test: past the acknowledgement timeout
WrapTimeSteps == {DEFAULT_ACK_TIMEOUT + 1}

\* the frame that carries block i of a message, as a sender builds it
BlockFrame(length, i) ==
    LET block == create_blocks(ArqInitial, length).m_tx_blocks[i]
    IN  format_data_frame([DataFrame EXCEPT
                             !.data_rate_format = 0,
                             !.data_rate = BPS_2400,
                             !.interleaver_length = 0,
                             !.sequence_number = block.sequence,
                             !.msg_byte_offset = block.offset,
                             !.data_length = block.length,
                             !.data = VecTake(block.data, block.length)], 1200)[1]

\* the byte offsets of the blocks that data frames carry
OffsetsOf(frames) ==
    {parse_data_frame(frames[k]).frame.msg_byte_offset : k \in 1 .. Len(frames)}

\* the sequence numbers of the blocks the harness has seen sent
SentSeqs == {arq.m_tx_blocks[i].sequence :
                i \in {j \in 1 .. Len(arq.m_tx_blocks) :
                          arq.m_tx_blocks[j].offset \in host.sent}}

\* what a test acknowledges: every block the harness has seen sent, or every
\* one of them but the first
WrapReceived == {SentSeqs, SentSeqs \ {0}}

\* A call of the sender test, when it returns: TestHarness::tx_callback keeps
\* the frames in sent_frames, of which host.sent holds the blocks' offsets.
WrapReturn(c) ==
    /\ ~c.hung
    /\ arq' = c.a
    /\ host' = [host EXCEPT !.sent = @ \cup OffsetsOf(c.out)]
    /\ UNCHANGED <<peer, chan, link_vars, unit_vars>>

\* the sender test, when the receiver test has not run
WrapStartTransmission(length) ==
    /\ peer = ArqInitial
    /\ WrapReturn(start_transmission(ArqCtx(arq), length))

WrapAcknowledge(received) ==
    /\ arq.m_tx_blocks # <<>>
    /\ WrapReturn(handle_received_frame(ArqCtx(arq),
                                        AckFrame(T2_CONTROL, DATA_ACK, received)))

WrapUpdate(dt) ==
    /\ Cardinality({i \in 1 .. Len(arq.m_tx_blocks) : ~arq.m_tx_blocks[i].acknowledged})
           <= MaxWrapQueue
    /\ TestUpdate(dt)

WrapDataReady ==
    /\ arq.m_state = "RETRANSMIT"
    /\ WrapReturn(arq_process_event(ArqCtx(arq), "DATA_READY"))

\* the receiver test, when the sender test has not run: START_RX, and the
\* frame of a block passed to the receiver
WrapStartRx == arq = ArqInitial /\ StartRx

WrapReceive(i) ==
    /\ arq = ArqInitial
    /\ LET c == handle_received_frame(ArqCtx(peer), BlockFrame(WrapLength, i))
       IN  ~c.hung /\ peer' = c.a
    /\ UNCHANGED <<arq, chan, host, link_vars, unit_vars>>

WrapStart ==
    /\ arq = ArqInitial
    /\ peer = ArqInitial
    /\ chan = ChanInitial
    /\ host = [now |-> 0, msg |-> -1, updates |-> 0, rx_first |-> FALSE, acks |-> 0,
               sent |-> {}]

WrapInit == WrapStart /\ LinkInit /\ AsmInit /\ CodecInit /\ LqaInit /\ GolayInit /\ MetricsInit

WrapNext ==
    \/ \E size \in WrapWindowSizes : TestSetWindowSize(size)
    \/ WrapStartTransmission(WrapLength)
    \/ \E received \in WrapReceived : WrapAcknowledge(received)
    \/ \E dt \in WrapTimeSteps : WrapUpdate(dt)
    \/ WrapDataReady
    \/ WrapStartRx
    \/ \E i \in WrapRxBlocks : WrapReceive(i)

WrapSpec == WrapInit /\ [][WrapNext]_vars

-----------------------------------------------------------------------------
(* Claims about the ARQ machine.  A claim about one call is stated over    *)
(* the result of the call in every reachable state of the object.          *)

\* the sequence numbers of the data frames in a sequence of emitted frames
SeqsOf(frames) == [i \in 1 .. Len(frames) |-> frames[i].head[3]]

Range(f) == {f[i] : i \in DOMAIN f}

\* the sequence numbers of the blocks of a sender that are not acknowledged
UnackedSeqs(a) == {a.m_tx_blocks[i].sequence :
                      i \in {j \in 1 .. Len(a.m_tx_blocks) : ~a.m_tx_blocks[j].acknowledged}}

\* the block of a sender that carries a sequence number, when only one does
BlockOf(a, seq) ==
    a.m_tx_blocks[CHOOSE i \in 1 .. Len(a.m_tx_blocks) : a.m_tx_blocks[i].sequence = seq]

C2_SenderEventuallyIdle ==
    [](/\ host.msg >= 0
       /\ host.rx_first
       /\ get_received_data(peer) = Message(host.msg)
       => <>(arq.m_state = "IDLE"))

\* a call made the sender enter TX_DATA
EntersTxData(r) == \E k \in 1 .. Len(r.trans) : r.trans[k][2] = "TX_DATA"

\* where a sender that has sent a window comes to rest
SettledAfterWindow(r) ==
    IF all_blocks_acked(r.a)
    THEN r.a.m_state = "IDLE"
    ELSE r.a.m_state = "WAIT_ACK" /\ r.a.m_wait_start_time = r.a.m_last_tx_time

\* C5: whenever start_transmission or an acknowledgement makes the sender
\* enter TX_DATA, the sender is in IDLE with every block acknowledged, or else
\* in WAIT_ACK with wait_start recorded, when the call returns: it is never
\* left in TX_DATA.
C5_LeavesTxDataAfterWindow ==
    /\ arq.m_state = "IDLE" =>
           \A length \in MsgLengths :
               LET r == start_transmission(ArqCtx(arq), length)
               IN  EntersTxData(r) => SettledAfterWindow(r)
    /\ arq.m_state = "WAIT_ACK" =>
           \A w \in TestControlFrames :
               LET r == handle_received_frame(ArqCtx(arq), w)
               IN  EntersTxData(r) => SettledAfterWindow(r)

\* the objects on which a sender in WAIT_ACK processes ACK_RECEIVED: the object
\* itself (process_event called by the host) and the object after process_ack
\* of each control frame
AckedObjects(a) ==
    {a} \cup {process_ack(a, parse_control_frame(w).frame) : w \in TestControlFrames}

\* the sequence numbers of the next window: the first m_window_size blocks from
\* m_next_tx_sequence on that are not acknowledged
NextWindow(a) ==
    LET rest == SelectSeq(SubSeq(a.m_tx_blocks, a.m_next_tx_sequence + 1,
                                 Len(a.m_tx_blocks)),
                          LAMBDA block : ~block.acknowledged)
    IN  [i \in 1 .. (IF Len(rest) < a.m_window_size THEN Len(rest) ELSE a.m_window_size)
            |-> rest[i].sequence]

\* C6: ACK_RECEIVED in WAIT_ACK takes the sender to IDLE when every block is
\* acknowledged; else to RETRANSMIT when the retransmit queue is not empty;
\* else to TX_DATA, where the blocks of the next window are emitted.
C6_AckReceivedInWaitAck ==
    arq.m_state = "WAIT_ACK" =>
        \A a \in AckedObjects(arq) :
            LET r == arq_process_event(ArqCtx(a), "ACK_RECEIVED")
            IN  /\ r.trans # <<>>
                /\ IF UnackedSeqs(a) = {}
                   THEN r.trans = <<<<"WAIT_ACK", "IDLE">>>> /\ r.out = <<>>
                   ELSE IF a.m_retransmit_queue # <<>>
                        THEN r.trans = <<<<"WAIT_ACK", "RETRANSMIT">>>> /\ r.out = <<>>
                        ELSE /\ Head(r.trans) = <<"WAIT_ACK", "TX_DATA">>
                             /\ SeqsOf(r.out) = NextWindow(a)

\* C6 witness: a sender in WAIT_ACK with a window of one block, to which the
\* acknowledgement of block 0 makes it enter TX_DATA and emit block 1.
C6_Witness ==
    /\ arq.m_state = "WAIT_ACK"
    /\ Len(arq.m_tx_blocks) > 1
    /\ LET r == handle_received_frame(ArqCtx(arq), AckFrame(T2_CONTROL, DATA_ACK, {0}))
       IN  /\ r.trans = <<<<"WAIT_ACK", "TX_DATA">>, <<"TX_DATA", "WAIT_ACK">>>>
           /\ SeqsOf(r.out) = <<1>>

\* C7: a receiver in RX_DATA answers every valid data frame by entering
\* SEND_ACK, emitting exactly one DATA_ACK control frame, and returning to
\* RX_DATA.
C7_DataFrameIsAcknowledged ==
    arq.m_state = "RX_DATA" =>
        \A w \in TestDataFrames :
            parse_data_frame(w).ok =>
                LET r == handle_received_frame(ArqCtx(arq), w)
                IN  /\ r.trans = <<<<"RX_DATA", "SEND_ACK">>, <<"SEND_ACK", "RX_DATA">>>>
                    /\ Len(r.out) = 1
                    /\ detect_frame_type(r.out[1]) # DATA
                    /\ parse_control_frame(r.out[1]).frame.ack_nak_type = DATA_ACK
                    /\ r.a.m_state = "RX_DATA"

\* C8: once the acknowledgement the receiver builds has been delivered intact,
\* the blocks the sender holds as acknowledged are exactly those whose sequence
\* number the receiver has stored.
C8_AckMarksStoredBlocks ==
    (host.acks = 1 /\ chan.to_arq = <<>>) =>
        \A i \in 1 .. Len(arq.m_tx_blocks) :
            arq.m_tx_blocks[i].acknowledged <=>
                arq.m_tx_blocks[i].sequence \in peer.m_rx_bitmap

\* C9: when NAK_RECEIVED or TIMEOUT takes a sender from WAIT_ACK to RETRANSMIT,
\* every block that is not acknowledged is on the retransmit queue.
C9_UnackedQueuedOnRetransmit ==
    arq.m_state = "WAIT_ACK" =>
        \A event \in {"NAK_RECEIVED", "TIMEOUT"} :
            LET r == arq_process_event(ArqCtx(arq), event)
            IN  r.a.m_state = "RETRANSMIT" =>
                    UnackedSeqs(r.a) \subseteq Range(r.a.m_retransmit_queue)

\* the queued sequence numbers whose block is not acknowledged, in queue order
QueuedUnacked(a) ==
    SelectSeq(a.m_retransmit_queue, LAMBDA seq : seq \in UnackedSeqs(a))

\* C10: DATA_READY in RETRANSMIT re-emits every queued sequence whose block is
\* not acknowledged, adds one to the retransmit_count of each, and returns to
\* WAIT_ACK; unless one of these blocks already has retransmit_count >=
\* max_retransmits, when an error is reported and the sender enters ERROR.
C10_RetransmitOnDataReady ==
    arq.m_state = "RETRANSMIT" =>
        LET r == arq_process_event(ArqCtx(arq), "DATA_READY")
            queued == QueuedUnacked(arq)
        IN  IF \E k \in 1 .. Len(queued) :
                   BlockOf(arq, queued[k]).retransmit_count >= arq.m_max_retransmits
            THEN r.errs = 1 /\ r.a.m_state = "ERROR"
            ELSE /\ SeqsOf(r.out) = queued
                 /\ \A i \in 1 .. Len(arq.m_tx_blocks) :
                        r.a.m_tx_blocks[i].retransmit_count =
                            arq.m_tx_blocks[i].retransmit_count
                            + (IF arq.m_tx_blocks[i].sequence \in Range(queued)
                               THEN 1 ELSE 0)
                 /\ r.errs = 0
                 /\ r.trans = <<<<"RETRANSMIT", "WAIT_ACK">>>>

\* C10 witness: a sender in RETRANSMIT whose two queued blocks have been sent
\* again twice; DATA_READY emits both a third time and returns to WAIT_ACK.
C10_Witness ==
    /\ arq.m_state = "RETRANSMIT"
    /\ Len(QueuedUnacked(arq)) = 2
    /\ \A k \in 1 .. 2 :
           BlockOf(arq, QueuedUnacked(arq)[k]).retransmit_count = arq.m_max_retransmits - 1
    /\ LET r == arq_process_event(ArqCtx(arq), "DATA_READY")
       IN  Len(r.out) = 2 /\ r.a.m_state = "WAIT_ACK"

\* C11: a machine in ERROR is still in ERROR after every event but RESET, every
\* received frame, every update() and every start_transmission(), which
\* returns false; after RESET, and after reset(), it is in IDLE.
C11_ErrorUntilReset ==
    arq.m_state = "ERROR" =>
        /\ \A event \in ARQEvents \ {"RESET"} :
               arq_process_event(ArqCtx(arq), event).a.m_state = "ERROR"
        /\ \A w \in TestControlFrames \cup TestDataFrames :
               handle_received_frame(ArqCtx(arq), w).a.m_state = "ERROR"
        /\ \A dt \in ArqTimeSteps :
               arq_update(ArqCtx(arq), host.now + dt).a.m_state = "ERROR"
        /\ \A length \in MsgLengths :
               LET r == start_transmission(ArqCtx(arq), length)
               IN  r.a.m_state = "ERROR" /\ r.ret = FALSE
        /\ arq_process_event(ArqCtx(arq), "RESET").a.m_state = "IDLE"
        /\ reset(ArqCtx(arq)).a.m_state = "IDLE"

\* C11 witness: a sender that entered ERROR because a block had been sent
\* again max_retransmits times, with that block still queued.
C11_Witness ==
    /\ arq.m_state = "ERROR"
    /\ \E i \in 1 .. Len(arq.m_tx_blocks) :
           arq.m_tx_blocks[i].retransmit_count >= arq.m_max_retransmits
    /\ arq_process_event(ArqCtx(arq), "DATA_READY").a = arq
    /\ arq_process_event(ArqCtx(arq), "RESET").a.m_tx_blocks = <<>>

\* the times of the next update() call that are looked at: the clock as it is,
\* one main-loop period later, and either side of the acknowledgement timeout
UpdateTimes == {host.now + dt : dt \in {0, TickPeriod} \cup ArqTimeSteps}

\* C12: update(now) fires TIMEOUT, which takes the machine from WAIT_ACK to
\* RETRANSMIT, exactly when the machine is in WAIT_ACK and now - wait_start >
\* ack_timeout; otherwise the machine keeps its state and everything it holds
\* but the time of the call, and no frame is ever emitted.
C12_UpdateFiresTimeout ==
    \A now \in UpdateTimes :
        LET r == arq_update(ArqCtx(arq), now)
            due == /\ arq.m_state = "WAIT_ACK"
                   /\ now - arq.m_wait_start_time > arq.m_ack_timeout
        IN  /\ r.out = <<>>
            /\ (r.trans = <<<<"WAIT_ACK", "RETRANSMIT">>>>) <=> due
            /\ ~due => r.trans = <<>> /\ r.a = [arq EXCEPT !.m_last_tx_time = now]

\* C12 witness: a sender waiting since a time after 0, for which update() at
\* wait_start + 5000 fires nothing and update() at wait_start + 5001 fires
\* TIMEOUT.
C12_Witness ==
    /\ arq.m_state = "WAIT_ACK"
    /\ arq.m_wait_start_time > 0
    /\ host.now = arq.m_wait_start_time
    /\ arq_update(ArqCtx(arq), host.now + DEFAULT_ACK_TIMEOUT).a.m_state = "WAIT_ACK"
    /\ arq_update(ArqCtx(arq), host.now + DEFAULT_ACK_TIMEOUT + 1).a.m_state = "RETRANSMIT"

-----------------------------------------------------------------------------
(* Claims about calls and timeouts of the link machine *)

\* the first three characters of an address
FirstThree(address) == [i \in 1 .. (IF Len(address) < 3 THEN Len(address) ELSE 3) |-> address[i]]

\* C13: initiate_call(addr) and initiate_net_call(addr) succeed exactly from
\* IDLE and SCANNING; a successful call first enters CALLING and then transmits
\* exactly two words: a TO word (TWS for a net call) with the first three
\* characters of addr, then a FROM word with the first three characters of the
\* self address.  A refused call changes no state and transmits nothing.
C13_CallEmitsToThenFrom ==
    \A address \in CallAddresses, is_net \in BOOLEAN :
        LET r == IF is_net
                 THEN initiate_net_call(LinkCtx(link), address)
                 ELSE initiate_call(LinkCtx(link), address)
        IN  /\ r.ret <=> link.current_state \in {"IDLE", "SCANNING"}
            /\ IF r.ret
               THEN /\ r.m.current_state = "CALLING"
                    /\ r.log = <<<<"state", "CALLING">>,
                                 <<"word", IF is_net THEN "TWS" ELSE "TO">>,
                                 <<"word", "FROM">>>>
                    /\ Len(r.words) = 2
                    /\ r.words[1].address = FirstThree(address)
                    /\ r.words[2].address = FirstThree(link.self_address)
               ELSE r.log = <<>> /\ r.m.current_state = link.current_state

\* C13 witness: a net call to K6KB from SCANNING by the station W1AW has
\* returned true, with the words TWS K6K and FROM W1A transmitted.
C13_Witness ==
    /\ link_call.op = "initiate_net_call"
    /\ link_call.from = "SCANNING"
    /\ link_call.ret
    /\ link.current_state = "CALLING"
    /\ Len(link_out.words) = 2
    /\ link_out.words[1].type = "TWS"
    /\ link_out.words[1].address = <<"K", "6", "K">>
    /\ link_out.words[2].type = "FROM"
    /\ link_out.words[2].address = <<"W", "1", "A">>

\* the limit update() is claimed to apply in a state, and where LINK_TIMEOUT
\* leads from it
TimeoutLimit(state) == IF state = "LINKED" THEN LINK_TIMEOUT_MS ELSE CALL_TIMEOUT_MS

TimeoutTarget(state) == IF state = "HANDSHAKE" THEN "SCANNING" ELSE "IDLE"

\* C14: in CALLING, HANDSHAKE and LINKED, update(now) fires LINK_TIMEOUT, which
\* ends in IDLE (from HANDSHAKE: in SCANNING), exactly when now - state_entry
\* has reached 30000 ms (in LINKED: 120000 ms).
C14_LinkTimeoutAtLimit ==
    link.current_state \in {"CALLING", "HANDSHAKE", "LINKED"} =>
        \A dt \in LinkTimeSteps(link.current_state) :
            LET now == link.current_time_ms + dt
                r == link_update(LinkCtx(link), now)
            IN  (now - link.state_entry_time_ms >= TimeoutLimit(link.current_state))
                <=> (/\ r.states # <<>>
                     /\ r.m.current_state = TimeoutTarget(link.current_state))

\* C15: in SOUNDING, update(now) fires SOUNDING_COMPLETE, which moves the
\* machine to SCANNING, exactly when now - state_entry has reached 392 ms.
C15_SoundingCompleteAtWordDuration ==
    link.current_state = "SOUNDING" =>
        \A dt \in LinkTimeSteps(link.current_state) :
            LET now == link.current_time_ms + dt
                r == link_update(LinkCtx(link), now)
            IN  (now - link.state_entry_time_ms >= WORD_DURATION_MS)
                <=> r.m.current_state = "SCANNING"

\* a word's address, trailing spaces trimmed, is the first three characters of
\* the self address: W1A for the station W1AW
MatchesSelf(word, m) ==
    /\ m.self_address # <<>>
    /\ Trim(word.address) = FirstThree(m.self_address)

\* C16: in SCANNING, a valid TO or TWS word whose trimmed three-character
\* address matches the self address triggers CALL_DETECTED: the machine is in
\* HANDSHAKE when process_received_word returns.
C16_CallDetectedOnMatchingWord ==
    link.current_state = "SCANNING" =>
        \A word \in ReceivedWords :
            (word.valid /\ word.type \in {"TO", "TWS"} /\ MatchesSelf(word, link)) =>
                process_received_word(LinkCtx(link), word).m.current_state = "HANDSHAKE"

\* the frames are data frames
DataFrames(frames) == \A k \in 1 .. Len(frames) : detect_frame_type(frames[k]) = DATA

\* sequence numbers in increasing order
Increasing(seqs) == \A k \in 1 .. Len(seqs) - 1 : seqs[k] < seqs[k + 1]

\* the data frames the sender emits from a start_transmission on: the first
\* window, nothing at the acknowledgement timeout, and the frames of the
\* DATA_READY that the host passes in RETRANSMIT
EmittedBeforeAck(a, length) ==
    LET r1 == start_transmission(ArqCtx(a), length)
        r2 == arq_update(ArqCtx(r1.a), r1.a.m_wait_start_time + r1.a.m_ack_timeout + 1)
        r3 == arq_process_event(ArqCtx(r2.a), "DATA_READY")
    IN  r1.out \o r2.out \o r3.out

C20_WindowBaseIsLowestUnacked ==
    UnackedSeqs(arq) # {} =>
        /\ arq.m_window_base \in UnackedSeqs(arq)
        /\ \A seq \in UnackedSeqs(arq) : arq.m_window_base <= seq

\* the blocks of the sender that the harness has seen sent and that are not
\* acknowledged
InFlight ==
    {i \in 1 .. Len(arq.m_tx_blocks) :
        arq.m_tx_blocks[i].offset \in host.sent /\ ~arq.m_tx_blocks[i].acknowledged}

\* the receiver's buffer holds the bytes of a block at the block's offset
Stored(a, block) ==
    /\ VecLen(a.m_rx_buffer) >= block.offset + block.length
    /\ VecMerge(VecTake(VecDrop(a.m_rx_buffer, block.offset), block.length))
           = VecMerge(block.data)

\* C18: in a message of more than 256 blocks, the receiver stores the block
\* that reuses sequence 0 at its own offset, as it stores every block, whatever
\* it has received before; and when the sender in WAIT_ACK, which has sent the
\* blocks 0 to 255, receives their acknowledgement, the call returns, the
\* block that reuses sequence 0 is not counted acknowledged, and its frame has
\* been emitted.
C18_ReusedSequenceHandledAlike ==
    /\ \A i \in WrapRxBlocks :
           LET block == create_blocks(ArqInitial, WrapLength).m_tx_blocks[i]
               r == handle_received_frame(ArqCtx(peer), BlockFrame(WrapLength, i))
           IN  Stored(r.a, block)
    /\ (/\ arq.m_state = "WAIT_ACK"
        /\ Len(arq.m_tx_blocks) > 256
        /\ SentSeqs = 0 .. 255) =>
           LET r == handle_received_frame(ArqCtx(arq),
                                          AckFrame(T2_CONTROL, DATA_ACK, 0 .. 255))
               reused == arq.m_tx_blocks[257]
           IN  /\ ~r.hung
               /\ ~r.a.m_tx_blocks[257].acknowledged
               /\ reused.offset \in OffsetsOf(r.out)

\* C19: no two blocks that have been sent and are not acknowledged carry the
\* same sequence number.
C19_InFlightSequencesDistinct ==
    \A i \in InFlight : \A j \in InFlight :
        i # j => arq.m_tx_blocks[i].sequence # arq.m_tx_blocks[j].sequence

\* in a message of 257 blocks the sender has come round to sequence 0 again:
\* every sequence number has been sent, and block 0 is in flight with others
C19_Witness ==
    /\ Len(arq.m_tx_blocks) > 256
    /\ SentSeqs = 0 .. 255
    /\ 1 \in InFlight
    /\ Cardinality(InFlight) > 1

\* C21: every call to handle_received_frame, process_event, update and
\* start_transmission on the sender returns, whatever the length of the
\* message and whatever has been acknowledged.
C21_EveryCallReturns ==
    /\ \A received \in WrapReceived :
           ~handle_received_frame(ArqCtx(arq),
                                  AckFrame(T2_CONTROL, DATA_ACK, received)).hung
    /\ \A event \in ARQEvents : ~arq_process_event(ArqCtx(arq), event).hung
    /\ \A dt \in WrapTimeSteps : ~arq_update(ArqCtx(arq), host.now + dt).hung
    /\ ~start_transmission(ArqCtx(arq), WrapLength).hung

\* C22: a valid data frame whose sequence number is marked in the receiver's
\* bitmap is dropped: the reassembly buffer and the bitmap are the same after
\* handle_received_frame as before.
C22_DuplicateIsDropped ==
    \A w \in TestDataFrames :
        (parse_data_frame(w).ok
         /\ parse_data_frame(w).frame.sequence_number \in arq.m_rx_bitmap) =>
            LET r == handle_received_frame(ArqCtx(arq), w)
            IN  /\ r.a.m_rx_buffer = arq.m_rx_buffer
                /\ r.a.m_rx_bitmap = arq.m_rx_bitmap

\* the receiver has stored the five bytes of a short message as block 0; the
\* first frame of the long message carries sequence 0 too, with 1023 bytes
C22_Witness ==
    /\ arq.m_rx_bitmap = {0}
    /\ VecLen(arq.m_rx_buffer) = 5
    /\ arq.m_state = "RX_DATA"

\* C23: in SCANNING with a non-empty scan list, update(now) moves
\* channel_index to (channel_index + 1) mod |scan_list| and passes that channel
\* to the channel callback exactly when now - last_hop >= dwell_time_ms;
\* otherwise the index is unchanged and the callback is not invoked.
C23_HopAtDwellTime ==
    (link.current_state = "SCANNING" /\ link.scan_list # <<>>) =>
        \A dt \in LinkTimeSteps(link.current_state) :
            LET now == link.current_time_ms + dt
                r == link_update(LinkCtx(link), now)
                next == (link.channel_index + 1) % Len(link.scan_list)
            IN  IF now - link.last_scan_hop_time_ms >= link.dwell_time_ms
                THEN /\ r.m.channel_index = next
                     /\ r.chans = <<link.scan_list[next + 1].frequency_hz>>
                     /\ r.m.current_state = "SCANNING"
                ELSE /\ r.m.channel_index = link.channel_index
                     /\ r.chans = <<>>

\* a scanning station on the last of three channels, 199 ms after its last
\* hop: the next update() either waits or goes round to the first channel
C23_Witness ==
    /\ link.current_state = "SCANNING"
    /\ Len(link.scan_list) = 3
    /\ link.channel_index = 2
    /\ link_call.op = "update"
    /\ link.current_time_ms - link.last_scan_hop_time_ms = 199

\* C24 as stated: every entry into SOUNDING emits exactly one TIS word,
\* addressed with the first three characters of the self address.
C24_SoundingEmitsTis ==
    link.current_state # "SOUNDING" =>
        \A event \in ALEEvents :
            LET r == process_event(LinkCtx(link), event)
            IN  r.m.current_state = "SOUNDING" =>
                    /\ Len(r.words) = 1
                    /\ r.words[1].type = "TIS"
                    /\ r.words[1].address = FirstThree(link.self_address)

\* C24, amended: an entry into SOUNDING emits exactly one TIS word, addressed
\* with the first three characters of the self address, when a self address
\* is set, and no word when none is.
C24_SoundingEmitsTisWithSelfAddress ==
    link.current_state # "SOUNDING" =>
        \A event \in ALEEvents :
            LET r == process_event(LinkCtx(link), event)
            IN  r.m.current_state = "SOUNDING" =>
                    IF link.self_address # <<>>
                    THEN /\ Len(r.words) = 1
                         /\ r.words[1].type = "TIS"
                         /\ r.words[1].valid
                         /\ r.words[1].address = FirstThree(link.self_address)
                    ELSE r.words = <<>>

\* the station W1AW has entered SOUNDING and emitted its TIS word
C24_Witness ==
    /\ link.current_state = "SOUNDING"
    /\ link.self_address = <<"W", "1", "A", "W">>
    /\ link_call.op = "process_event"
    /\ Len(link_out.words) = 1
    /\ link_out.words[1].type = "TIS"

\* C25 as stated: with an empty scan list update(now) changes neither the
\* state nor the channel index and invokes no callback.
C25_EmptyScanListUpdateIsNoOp ==
    link.scan_list = <<>> =>
        \A dt \in LinkTimeSteps(link.current_state) :
            LET r == link_update(LinkCtx(link), link.current_time_ms + dt)
            IN  /\ r.m.current_state = link.current_state
                /\ r.m.channel_index = link.channel_index
                /\ r.log = <<>>

\* C25, amended: with an empty scan list update(now) in SCANNING, IDLE or ERROR
\* records the time and changes nothing else of the machine, and invokes no
\* callback.
C25_EmptyScanListScanningIsNoOp ==
    (link.scan_list = <<>> /\ link.current_state \in {"SCANNING", "IDLE", "ERROR"}) =>
        \A dt \in LinkTimeSteps(link.current_state) :
            LET r == link_update(LinkCtx(link), link.current_time_ms + dt)
            IN  /\ r.m = [link EXCEPT !.current_time_ms = link.current_time_ms + dt]
                /\ r.log = <<>>
                /\ r.words = <<>> /\ r.chans = <<>> /\ r.states = <<>>

\* update has run in SCANNING with an empty scan list, the dwell time over
C25_Witness ==
    /\ link.current_state = "SCANNING"
    /\ link.scan_list = <<>>
    /\ link_call.op = "update"
    /\ link.current_time_ms - link.last_scan_hop_time_ms >= link.dwell_time_ms
    /\ link_out.chans = <<>>

-----------------------------------------------------------------------------
(* Claims about the message assembler *)

\* C26: add_word on a valid word returns true exactly when, the word appended,
\* the buffered words contain a TIS word, or a TO or TWS word and a FROM word;
\* otherwise it returns false and the message stays incomplete.
C26_CompleteOnTisOrToFrom ==
    \A word \in {w \in AsmWords : w.valid} :
        LET r == add_word(asm, word)
            words == r.a.current_words
            types == {words[i].type : i \in 1 .. Len(words)}
        IN  /\ words # <<>> /\ words[Len(words)] = word
            /\ r.ret <=> \/ "TIS" \in types
                         \/ ("TO" \in types \/ "TWS" \in types) /\ "FROM" \in types
            /\ ~r.ret => ~r.a.current_message.complete

\* add_word has returned true on a TWS word and a FROM word
C26_Witness ==
    /\ asm_call.op = "add_word"
    /\ asm_call.ret
    /\ {asm.current_words[i].type : i \in 1 .. Len(asm.current_words)} = {"TWS", "FROM"}
    /\ asm.current_message.complete

\* C27: a valid word that arrives while the assembler is inactive, or more than
\* word_timeout_ms after the last word, discards the buffered words and starts
\* a message at its own timestamp; a word within the timeout is appended to the
\* current message.
C27_TimeoutStartsNewMessage ==
    \A word \in {w \in AsmWords : w.valid} :
        LET r == add_word(asm, word)
        IN  IF \/ ~asm.active
               \/ word.timestamp_ms - asm.last_word_time_ms > asm.word_timeout_ms
            THEN /\ r.a.current_words = <<word>>
                 /\ r.a.current_message.start_time_ms = word.timestamp_ms
                 /\ r.a.current_message.words \in {<<>>, <<word>>}
                 /\ r.a.active
            ELSE /\ r.a.current_words = Append(asm.current_words, word)
                 /\ r.a.current_message.start_time_ms = asm.current_message.start_time_ms
                 /\ r.a.active

\* a word has arrived one ms past the timeout and replaced two buffered words
C27_Witness ==
    /\ asm_call.op = "add_word"
    /\ asm_call.buffered = 2
    /\ Len(asm.current_words) = 1
    /\ asm.current_message.start_time_ms = 1001 + WORD_TIMEOUT_MS
    /\ asm.last_word_time_ms = 1001 + WORD_TIMEOUT_MS

-----------------------------------------------------------------------------
(* Claims about the frame formatter and parser *)

\* C28: for a well-formed data frame F, parse_data_frame(format_data_frame(F))
\* succeeds and yields the sequence number, byte offset, length and payload of
\* F, and with any single bit of the formatted bytes flipped parse_data_frame
\* rejects the frame.
C28_RoundTripAndBitFlip ==
    (codec.op = "parse" /\ codec.frame.data_length <= MAX_DATA_BLOCK_LENGTH) =>
        IF codec.flipped < 0
        THEN /\ codec.ok
             /\ codec.parsed.sequence_number = codec.frame.sequence_number
             /\ codec.parsed.msg_byte_offset = codec.frame.msg_byte_offset
             /\ codec.parsed.data_length = codec.frame.data_length
             /\ VecLen(codec.parsed.data) = codec.frame.data_length
             /\ VecOctets(codec.parsed.data)
                    = VecOctets(VecTake(codec.frame.data, codec.frame.data_length))
        ELSE ~codec.ok

\* the parser has rejected a frame of two payload bytes with one payload bit
\* flipped
C28_Witness ==
    /\ codec.op = "parse"
    /\ codec.frame.data_length = 2
    /\ codec.flipped = 8 * 9 + 3
    /\ ~codec.ok

\* C29 as stated: a block of 1023 bytes is accepted by the formatter and the
\* parser; with a block of 1024 bytes format_data_frame fails and produces no
\* frame.
C29_OversizeBlockFailsToFormat ==
    /\ (codec.op = "format" /\ codec.frame.data_length = MAX_DATA_BLOCK_LENGTH) =>
           codec.formatted # <<>>
    /\ (codec.op = "parse" /\ codec.frame.data_length = MAX_DATA_BLOCK_LENGTH) =>
           codec.ok
    /\ (codec.op = "format" /\ codec.frame.data_length = MAX_DATA_BLOCK_LENGTH + 1) =>
           codec.formatted = <<>>

-----------------------------------------------------------------------------
(* Claims about the LQA database *)

\* update_entry called n times with the same arguments
RECURSIVE UpdatedTimes(_, _, _, _, _, _)
UpdatedTimes(entries, n, frequency_hz, remote_station, m, timestamp_ms) ==
    IF n = 0 THEN entries
    ELSE update_entry(UpdatedTimes(entries, n - 1, frequency_hz, remote_station, m,
                                   timestamp_ms),
                      frequency_hz, remote_station, m.snr_db, m.ber, m.fec_errors,
                      m.total_words, timestamp_ms, CHOOSE clock \in LqaClock : TRUE)

\* the entries of a frequency and a station
EntriesOf(entries, frequency_hz, remote_station) ==
    SelectSeq(entries, LAMBDA e : /\ e.frequency_hz = frequency_hz
                                  /\ e.remote_station = remote_station)

\* C30: after update_entry is called N times with the same frequency, station
\* and metrics for a key the database did not hold, the database holds one
\* entry for the key, with total_words N times the words of a call, fec_errors
\* N times the errors of a call, and sample_count N.
C30_IdenticalUpdatesAccumulate ==
    \A frequency_hz \in LqaFrequencies, remote_station \in LqaStations,
       m \in LqaMetrics, timestamp_ms \in LqaTimestamps, N \in 1 .. MaxSamples :
        EntriesOf(lqa, frequency_hz, remote_station) = <<>> =>
            LET after == UpdatedTimes(lqa, N, frequency_hz, remote_station, m, timestamp_ms)
                found == EntriesOf(after, frequency_hz, remote_station)
            IN  /\ Len(found) = 1
                /\ Len(after) = Len(lqa) + 1
                /\ found[1].total_words = N * m.total_words
                /\ found[1].fec_errors = N * m.fec_errors
                /\ found[1].sample_count = N

\* the database holds two entries, one of them made of two calls with 2 errors
\* in 100 words each
C30_Witness ==
    /\ Len(lqa) = 2
    /\ \E i \in 1 .. Len(lqa) :
           /\ lqa[i].sample_count = 2
           /\ lqa[i].total_words = 2 * 100
           /\ lqa[i].fec_errors = 2 * 2
           /\ Len(EntriesOf(lqa, lqa[i].frequency_hz, lqa[i].remote_station)) = 1

-----------------------------------------------------------------------------
(* Claims about the Golay codec *)

\* C31: for every information word and every error pattern of weight 0 to 3
\* over the 24 bits of the codeword, decode of the encoded word with the
\* pattern applied returns the word encoded and an error count equal to the
\* weight of the pattern, whenever the syndrome table has an entry for the
\* syndrome of what was received.
C31_DecodeCorrectsUpToThreeErrors ==
    (/\ golay.op = "decode"
     /\ Len(golay.error) <= CORRECTABLE_ERRORS
     /\ init_syndrome_table(compute_syndrome(golay.codeword)) # <<-1>>)
        => /\ golay.output = golay.info
           /\ golay.ret = Len(golay.error)

-----------------------------------------------------------------------------
(* Further claims about the ARQ machine *)

\* the sequence numbers of the blocks of a message
MessageSeqs(length) ==
    LET blocks == create_blocks(ArqInitial, length).m_tx_blocks
    IN  {blocks[i].sequence : i \in 1 .. Len(blocks)}

\* C32: a receiver that was started with START_RX before the transmission is
\* in IDLE again only when every block of the message being sent has been
\* received; after the first block of a message of several blocks it is still
\* in receive mode.
C32_ReceiverIdleOnlyWhenAllReceived ==
    (host.rx_first /\ host.msg >= 0 /\ peer.m_state = "IDLE") =>
        MessageSeqs(host.msg) \subseteq peer.m_rx_bitmap

\* C33: once every block of the message has been acknowledged at the sender,
\* in whatever state the acknowledging frame found it, the sender reaches IDLE
\* after finitely many further steps.
C33_AllAckedLeadsToIdle ==
    [](/\ host.msg > 0
       /\ all_blocks_acked(arq)
       => <>(arq.m_state = "IDLE"))

\* C34: when no acknowledgement ever reaches the sender of a message and only
\* update() is called on it, with the clock advancing, the sender enters
\* ERROR: it does not stay in WAIT_ACK or RETRANSMIT for ever.
C34_UnackedSenderReachesError ==
    [](host.msg > 0 => <>(arq.m_state = "ERROR"))

-----------------------------------------------------------------------------
(* Further claims about the link machine *)

\* C35: a timeout of update(), LINK_TIMEOUT or SOUNDING_COMPLETE, fires no
\* earlier than its duration after the moment the state was entered, also when
\* the state was entered through process_event or initiate_call some time
\* after the last update() call.
C35_NoTimeoutBeforeItsDuration ==
    link.current_state \in {"CALLING", "HANDSHAKE", "LINKED", "SOUNDING"} =>
        LET r == link_update(LinkCtx(link), link_call.now)
            duration == IF link.current_state = "SOUNDING"
                        THEN WORD_DURATION_MS
                        ELSE TimeoutLimit(link.current_state)
        IN  r.states # <<>> => link_call.now - link_call.entered >= duration

\* C36: while no self address has been set, no received word, a valid word
\* whose address is all spaces included, moves the machine from SCANNING to
\* HANDSHAKE.
C36_NoCallDetectedWithoutSelfAddress ==
    (link.current_state = "SCANNING" /\ link.self_address = <<>>) =>
        \A word \in ReceivedWords :
            process_received_word(LinkCtx(link), word).m.current_state # "HANDSHAKE"

-----------------------------------------------------------------------------
(* Further claims about the message assembler *)

\* the trimmed addresses of the words of some types, blank ones left out, in
\* the order of the words
NonBlank(words, types) ==
    LET sel == SelectSeq(words, LAMBDA w : w.type \in types /\ Trim(w.address) # <<>>)
    IN  [i \in 1 .. Len(sel) |-> Trim(sel[i].address)]

\* a message lists each of its addressed and data words once
ListsEachWordOnce(msg) ==
    /\ msg.to_addresses = NonBlank(msg.words, {"TO", "TWS"})
    /\ msg.data_content = NonBlank(msg.words, {"DATA"})

\* C37: in every completed message, to_addresses holds one entry for each TO
\* or TWS word of the message with a non-blank address, in the order of the
\* words, and data_content one entry for each non-blank DATA word, also when
\* words were added after the message first became complete and before
\* get_message was called.
C37_AddressesListedOnce ==
    \A word \in AsmWords :
        LET added == add_word(asm, word)
            got == get_message(added.a)
        IN  got.ret => ListsEachWordOnce(got.output)

\* the host loop of a receiver: if (assembler.add_word(word))
\* assembler.get_message(message), for each word in turn; the messages
\* delivered
RECURSIVE Delivered(_, _)
Delivered(a, words) ==
    IF words = <<>> THEN <<>>
    ELSE LET added == add_word(a, Head(words))
         IN  IF added.ret
             THEN <<get_message(added.a).output>>
                      \o Delivered(get_message(added.a).a, Tail(words))
             ELSE Delivered(added.a, Tail(words))

\* the words of an AMD call: TO, FROM and DATA, none of them blank, each
\* within the word timeout of the one before
AmdCalls ==
    {call \in AsmWords \X AsmWords \X AsmWords :
        /\ call[1].type = "TO" /\ call[2].type = "FROM" /\ call[3].type = "DATA"
        /\ \A k \in 1 .. 3 : call[k].valid /\ Trim(call[k].address) # <<>>
        /\ \A k \in 1 .. 2 :
              /\ call[k].timestamp_ms <= call[k + 1].timestamp_ms
              /\ call[k + 1].timestamp_ms - call[k].timestamp_ms <= WORD_TIMEOUT_MS}

\* C38: when the words TO, FROM, DATA of an AMD call are fed in this order,
\* within the word timeout, to an assembler that holds no word, and the host
\* calls get_message each time add_word returns true, one of the messages
\* delivered has call type AMD and carries the payload of the DATA word.
C38_AmdCallDelivered ==
    asm.current_words = <<>> =>
        \A call \in AmdCalls :
            \E k \in 1 .. Len(Delivered(asm, call)) :
                /\ Delivered(asm, call)[k].call_type = "AMD"
                /\ Delivered(asm, call)[k].data_content = <<Trim(call[3].address)>>

-----------------------------------------------------------------------------
(* Claims about the acknowledgement bitmap *)

\* an acknowledgement frame with the flow-control flag set
FlowControlFrame(received) ==
    format_control_frame([ControlFrame EXCEPT
                            !.frame_type = T2_CONTROL,
                            !.ack_nak_type = DATA_ACK,
                            !.bit_map = AckBitMap(received),
                            !.flow_control = TRUE])

\* C39: the flow-control flag of a received DATA_ACK frame, the top bit of the
\* last byte of the bitmap, does not change which blocks the sender marks as
\* acknowledged: the frame marks the blocks the same frame without the flag
\* marks, and not the block with sequence number 255.
C39_FlowControlFlagAcknowledgesNothing ==
    \A received \in WrapReceived \cup {{}} :
        process_ack(arq, parse_control_frame(FlowControlFrame(received)).frame).m_tx_blocks
            = process_ack(arq, parse_control_frame(
                                   AckFrame(T2_CONTROL, DATA_ACK, received)).frame).m_tx_blocks

-----------------------------------------------------------------------------
(* Claims about the metrics collector *)

\* the samples among added that were added for a (frequency, station) pair
AddedFor(added, frequency_hz, remote_station) ==
    SelectSeq(added, LAMBDA a : /\ a.frequency_hz = frequency_hz
                                /\ a.remote_station = remote_station)

\* the errors corrected in the samples of added
RECURSIVE ErrorsIn(_)
ErrorsIn(added) ==
    IF added = <<>> THEN 0
    ELSE Head(added).sample.fec_errors_corrected + ErrorsIn(Tail(added))

\* C40: samples added for one (frequency, station) pair never contribute to the
\* averages or to the word and error totals written to the entry of a different
\* pair: the entry of a pair counts no more words and no more errors than the
\* samples added for that pair hold, and its SNR lies between the lowest and the
\* highest SNR among them.
C40_EntryHoldsOnlyItsOwnSamples ==
    \A k \in 1 .. Len(lqa) :
        LET entry == lqa[k]
            own == AddedFor(metrics.added, entry.frequency_hz, entry.remote_station)
        IN  /\ entry.total_words <= Len(own)
            /\ entry.fec_errors <= ErrorsIn(own)
            /\ \E low, high \in 1 .. Len(own) :
                   /\ own[low].sample.snr_db <= entry.snr_db
                   /\ entry.snr_db <= own[high].sample.snr_db

=============================================================================
